---- MODULE Spec2Model ----
(***************************************************************************)
(* Posture analysis core of PoseEstimationForMobile:                       *)
(*   posture-analysis/src/utils.ts        detectPostureType, calculateAngles*)
(*   posture-analysis/src/scoring.ts      calculatePostureScore,            *)
(*                                        detectPostureIssues,              *)
(*                                        prioritizeIssues                  *)
(*   posture-analysis/src/calibration.ts  CalibrationManager,               *)
(*                                        PostureAnalyzer                   *)
(*   pose-detection utils (part_003)      calculateAngle, getKeypointByName,*)
(*                                        extractKeypoints, smoothKeypoints *)
(*   pose-detection PoseDetector (part_004)  life cycle of the model       *)
(*   ui-components/src/AlertBanner.tsx    the auto-hide timeout            *)
(*   reuse/src/index.ts                   PoseEstimationCamera frame loop  *)
(*                                                                         *)
(* Units.  Image coordinates and keypoint scores are normalised floats in  *)
(* [0,1]; here they are integers in hundredths (0.05 is 5, 0.2 is 20).     *)
(* Angles are integers in degrees.  The issue threshold is in hundredths   *)
(* (0.5 is 50).  A quotient the code leaves as a float (the mean of the    *)
(* calibration angles, the progress percentage) is kept as an exact        *)
(* fraction [num, den].  Input poses are chosen so that every midpoint     *)
(* the code takes falls on the grid, and every direction the code feeds    *)
(* to atan2 is a multiple of 45 degrees, where atan2 is exact.             *)
(*                                                                         *)
(* Specifications.                                                         *)
(*   Spec        a CalibrationManager constructed with minSamples >= 1     *)
(*   SpecAnyMin  the same, the constructor argument may also be 0          *)
(*   SpecScore   one call of calculatePostureScore on bounded inputs       *)
(*   SpecIssues  one call of detectPostureIssues on bounded inputs         *)
(*   SpecPrioritize                                                        *)
(*       one call of prioritizeIssues                                      *)
(*   SpecAnalyzer                                                          *)
(*       a PostureAnalyzer: setUserBaseline, analyzePose, reset            *)
(*   SpecExtract                                                           *)
(*       one call of extractKeypoints on small heatmaps                    *)
(*   SpecSmooth                                                            *)
(*       one call of smoothKeypoints                                       *)
(*   SpecAngle                                                             *)
(*       one call of calculateAngle                                        *)
(*   SpecAngles                                                            *)
(*       one call of calculateAngles, keypoints missing                    *)
(*   SpecType    one call of detectPostureType                             *)
(*   SpecUpdate  one call of updateBaseline beside a CalibrationManager    *)
(*   SpecDetector                                                          *)
(*       a PoseDetector: initialize, detectPose, dispose, isInitialized    *)
(*   SpecBanner  an AlertBanner: renders, its timeout, its animations      *)
(*   SpecCamera  the frame loops of a PoseEstimationCamera                 *)
(***************************************************************************)
EXTENDS Integers, Sequences, FiniteSets, TLC

VARIABLES
    minSamples,          \* CalibrationManager.minSamples
    maxSamples,          \* CalibrationManager.maxSamples
    calibrationSamples,  \* CalibrationManager.calibrationSamples
    added,               \* history: the poses passed to addSample since the last reset
    clock,               \* number of addSample calls so far (the pose timestamps)
    op,                  \* the operation that ran last
    ret,                 \* what it returned
    pc,                  \* position of the scoring / detection call
    pose,                \* argument: pose
    angles,              \* argument: angles
    baseline,            \* argument: baseline (NULL when absent)
    threshold,           \* argument: threshold, in hundredths
    now,                 \* the reading of Date.now() during the call
    score,               \* result of calculatePostureScore
    issues,              \* result of detectPostureIssues
    input,               \* arguments of a call of a pure function
    output,              \* what that call returned
    userBaseline,        \* PostureAnalyzer.userBaseline
    previousPose,        \* PostureAnalyzer.previousPose
    issueDetectionThreshold,  \* PostureAnalyzer.config.issueDetectionThreshold
    metrics,             \* what the last analyzePose returned
    model,               \* PoseDetector.model (NULL, or the handle of a loaded model)
    loaded,              \* number of models tf.loadGraphModel has returned so far
    disposed,            \* the handles of the models dispose() was called on
    everInitialized,     \* history: an initialize() call has resolved
    call,                \* the PoseDetector call that ran last
    result,              \* its outcome
    bannerIssues,        \* AlertBanner: the issues prop
    autoHideDuration,    \* AlertBanner: the autoHideDuration prop, in ms
    visibleIssues,       \* AlertBanner: the visibleIssues state
    timer,               \* AlertBanner: the auto-hide timeout is pending
    closing,             \* AlertBanner: who started the slide-out animations running
    frames,              \* camera: per tensor pulled, how often it was disposed
    isProcessing,        \* PoseEstimationCamera.isProcessing.current
    lastInferenceTime,   \* PoseEstimationCamera.lastInferenceTime.current
    cameraClock,         \* camera: the reading of Date.now(), in ms
    loops                \* camera: the frame loops started, each with its position

calVars == <<minSamples, maxSamples, calibrationSamples, added, clock, op, ret>>
anaVars == <<pc, pose, angles, baseline, threshold, now, score, issues>>
funVars == <<input, output>>
analyzerVars == <<userBaseline, previousPose, issueDetectionThreshold, metrics>>
detectorVars == <<model, loaded, disposed, everInitialized, call, result>>
bannerVars == <<bannerIssues, autoHideDuration, visibleIssues, timer, closing>>
cameraVars == <<frames, isProcessing, lastInferenceTime, cameraClock, loops>>
appVars == <<detectorVars, bannerVars, cameraVars>>
vars == <<minSamples, maxSamples, calibrationSamples, added, clock, op, ret,
          pc, pose, angles, baseline, threshold, now, score, issues,
          input, output,
          userBaseline, previousPose, issueDetectionThreshold, metrics,
          model, loaded, disposed, everInitialized, call, result,
          bannerIssues, autoHideDuration, visibleIssues, timer, closing,
          frames, isProcessing, lastInferenceTime, cameraClock, loops>>

-----------------------------------------------------------------------------
(* Bounds of the model *)

MaxMinSamples == 2
MaxAdds == 6
MaxNow == 1

-----------------------------------------------------------------------------
(* Values *)

(* null / undefined *)
NULL == [null |-> TRUE]

Abs(n) == IF n < 0 THEN -n ELSE n

Frac(n, d) == [num |-> n, den |-> d]

RECURSIVE SeqSum(_)
SeqSum(s) == IF s = <<>> THEN 0 ELSE Head(s) + SeqSum(Tail(s))

(* PostureType, types.ts *)
SITTING == "sitting"
STANDING == "standing"
EXERCISING == "exercising"
UNKNOWN == "unknown"

(* IssueSeverity, types.ts *)
MILD == "mild"
MODERATE == "moderate"
SEVERE == "severe"

(* PostureIssueType, types.ts *)
FORWARD_HEAD == "forward_head"
ROUNDED_SHOULDERS == "rounded_shoulders"
SLOUCHING == "slouching"
UNEVEN_HIPS == "uneven_hips"
UNEVEN_SHOULDERS == "uneven_shoulders"
EXCESSIVE_LORDOSIS == "excessive_lordosis"
EXCESSIVE_KYPHOSIS == "excessive_kyphosis"

-----------------------------------------------------------------------------
(* pose-detection: keypoints *)

Keypoint(n, px, py) == [name |-> n, x |-> px, y |-> py, score |-> 90]

RECURSIVE getKeypointByName(_, _)
getKeypointByName(keypoints, name) ==
    IF keypoints = <<>> THEN NULL
    ELSE IF Head(keypoints).name = name THEN Head(keypoints)
    ELSE getKeypointByName(Tail(keypoints), name)

(* Math.atan2(dy, dx) * 180 / Math.PI, on the directions where it is exact *)
Atan2Deg(dy, dx) ==
    CASE dy = 0 /\ dx >= 0 -> 0
      [] dy = 0 /\ dx < 0 -> 180
      [] dx = 0 /\ dy > 0 -> 90
      [] dx = 0 /\ dy < 0 -> -90
      [] dy = dx /\ dx > 0 -> 45
      [] dy = dx /\ dx < 0 -> -135
      [] dy = -dx /\ dx > 0 -> -45
      [] dy = -dx /\ dx < 0 -> 135

(* faulty variant: a difference over 180 degrees is returned as it is *)
calculateAngleUnfolded(p1, p2, p3) ==
    Abs(Atan2Deg(p3.y - p2.y, p3.x - p2.x) - Atan2Deg(p1.y - p2.y, p1.x - p2.x))

calculateAngle(p1, p2, p3) ==
    LET degrees == Abs(Atan2Deg(p3.y - p2.y, p3.x - p2.x)
                       - Atan2Deg(p1.y - p2.y, p1.x - p2.x))
    IN  IF degrees > 180 THEN 360 - degrees ELSE degrees


-----------------------------------------------------------------------------
(* posture-analysis/src/utils.ts *)

(* faulty variant: a hip-knee distance of exactly 0.2 still counts as sitting *)
detectPostureTypeInclusive(p) ==
    LET find(name) == getKeypointByName(p.keypoints, name)
    IN  IF \E name \in {"leftHip", "rightHip", "leftKnee", "rightKnee", "neck"} :
               find(name) = NULL
        THEN UNKNOWN
        ELSE IF Abs((find("leftHip").y + find("rightHip").y) \div 2
                    - (find("leftKnee").y + find("rightKnee").y) \div 2) <= 20
             THEN SITTING ELSE STANDING

detectPostureType(p) ==
    LET leftHip == getKeypointByName(p.keypoints, "leftHip")
        rightHip == getKeypointByName(p.keypoints, "rightHip")
        leftKnee == getKeypointByName(p.keypoints, "leftKnee")
        rightKnee == getKeypointByName(p.keypoints, "rightKnee")
        neck == getKeypointByName(p.keypoints, "neck")
    IN  IF leftHip = NULL \/ rightHip = NULL \/ leftKnee = NULL
           \/ rightKnee = NULL \/ neck = NULL
        THEN UNKNOWN
        ELSE LET avgHipY == (leftHip.y + rightHip.y) \div 2
                 avgKneeY == (leftKnee.y + rightKnee.y) \div 2
                 hipKneeRatio == Abs(avgHipY - avgKneeY)
             IN  IF hipKneeRatio < 20 THEN SITTING ELSE STANDING

(* faulty variant: no angle is computed unless every keypoint that any of
   the five angles needs is present *)
calculateAnglesWholePose(p) ==
    LET find(name) == getKeypointByName(p.keypoints, name)
        midpoint(a, b) ==
            [name |-> "midpoint", x |-> (a.x + b.x) \div 2, y |-> (a.y + b.y) \div 2,
             score |-> (a.score + b.score) \div 2]
        hipMidpoint == midpoint(find("leftHip"), find("rightHip"))
    IN  IF \E name \in {"top", "neck", "leftShoulder", "rightShoulder", "leftElbow",
                        "leftHip", "rightHip", "leftKnee", "leftAnkle"} :
               find(name) = NULL
        THEN [neckAngle |-> 0, shoulderAngle |-> 0, spineAngle |-> 0,
              hipAngle |-> 0, kneeAngle |-> 0]
        ELSE [neckAngle |->
                 calculateAngle(find("top"), find("neck"),
                                midpoint(find("leftShoulder"), find("rightShoulder"))),
              shoulderAngle |->
                 calculateAngle(find("neck"), find("leftShoulder"), find("leftElbow")),
              spineAngle |->
                 calculateAngle(find("neck"), hipMidpoint,
                                [hipMidpoint EXCEPT !.y = hipMidpoint.y + 50]),
              hipAngle |->
                 calculateAngle(find("leftShoulder"), find("leftHip"), find("leftKnee")),
              kneeAngle |->
                 calculateAngle(find("leftHip"), find("leftKnee"), find("leftAnkle"))]

calculateAngles(p) ==
    LET head == getKeypointByName(p.keypoints, "top")
        neck == getKeypointByName(p.keypoints, "neck")
        leftShoulder == getKeypointByName(p.keypoints, "leftShoulder")
        rightShoulder == getKeypointByName(p.keypoints, "rightShoulder")
        leftElbow == getKeypointByName(p.keypoints, "leftElbow")
        leftHip == getKeypointByName(p.keypoints, "leftHip")
        rightHip == getKeypointByName(p.keypoints, "rightHip")
        leftKnee == getKeypointByName(p.keypoints, "leftKnee")
        leftAnkle == getKeypointByName(p.keypoints, "leftAnkle")
        shoulderMidpoint ==
            [name |-> "shoulderMidpoint",
             x |-> (leftShoulder.x + rightShoulder.x) \div 2,
             y |-> (leftShoulder.y + rightShoulder.y) \div 2,
             score |-> (leftShoulder.score + rightShoulder.score) \div 2]
        hipMidpoint ==
            [name |-> "hipMidpoint",
             x |-> (leftHip.x + rightHip.x) \div 2,
             y |-> (leftHip.y + rightHip.y) \div 2,
             score |-> (leftHip.score + rightHip.score) \div 2]
        verticalReference ==
            [name |-> "verticalRef", x |-> hipMidpoint.x,
             y |-> hipMidpoint.y + 50, score |-> 100]
    IN  [neckAngle |->
            IF head # NULL /\ neck # NULL /\ leftShoulder # NULL /\ rightShoulder # NULL
            THEN calculateAngle(head, neck, shoulderMidpoint) ELSE 0,
         shoulderAngle |->
            IF neck # NULL /\ leftShoulder # NULL /\ leftElbow # NULL
            THEN calculateAngle(neck, leftShoulder, leftElbow) ELSE 0,
         spineAngle |->
            IF neck # NULL /\ leftHip # NULL /\ rightHip # NULL
            THEN calculateAngle(neck, hipMidpoint, verticalReference) ELSE 0,
         hipAngle |->
            IF leftShoulder # NULL /\ leftHip # NULL /\ leftKnee # NULL
            THEN calculateAngle(leftShoulder, leftHip, leftKnee) ELSE 0,
         kneeAngle |->
            IF leftHip # NULL /\ leftKnee # NULL /\ leftAnkle # NULL
            THEN calculateAngle(leftHip, leftKnee, leftAnkle) ELSE 0]

calculateAngleDeviation(actual, optimal) == Abs(actual - optimal)

-----------------------------------------------------------------------------
(* Input poses.  y grows downwards; coordinates in hundredths. *)

SitUprightKeypoints ==
    << Keypoint("top", 50, 10), Keypoint("neck", 50, 30),
       Keypoint("leftShoulder", 40, 40), Keypoint("rightShoulder", 60, 40),
       Keypoint("leftElbow", 40, 60), Keypoint("rightElbow", 60, 60),
       Keypoint("leftWrist", 30, 60), Keypoint("rightWrist", 70, 60),
       Keypoint("leftHip", 40, 70), Keypoint("rightHip", 60, 70),
       Keypoint("leftKnee", 20, 70), Keypoint("rightKnee", 80, 70),
       Keypoint("leftAnkle", 20, 90), Keypoint("rightAnkle", 80, 90) >>

(* keypoints with the named keypoint moved to (px, py) *)
Moved(keypoints, name, px, py) ==
    [i \in DOMAIN keypoints |->
        IF keypoints[i].name = name THEN Keypoint(name, px, py) ELSE keypoints[i]]

(* head tilted forward, elbow raised *)
SitTiltedKeypoints ==
    Moved(Moved(SitUprightKeypoints, "top", 30, 10), "leftElbow", 50, 50)

StandKeypoints ==
    Moved(Moved(Moved(Moved(SitUprightKeypoints,
        "leftKnee", 40, 90), "rightKnee", 60, 90),
        "leftAnkle", 40, 100), "rightAnkle", 60, 100)

(* the lower body is out of frame: knees and ankles are missing *)
UpperBodyKeypoints == SubSeq(SitUprightKeypoints, 1, 10)

CalibrationKeypoints == {SitTiltedKeypoints, StandKeypoints, UpperBodyKeypoints}

Pose(keypoints, t) == [keypoints |-> keypoints, score |-> 90, timestamp |-> t]

-----------------------------------------------------------------------------
(* posture-analysis/src/calibration.ts: CalibrationManager *)

(* Array.prototype.shift: drops the first element; nothing on an empty array *)
Shift(s) == IF s = <<>> THEN s ELSE Tail(s)

(* faulty variant: the window is full only once it is over maxSamples *)
addSampleLate(samples, maxS, p) ==
    LET kept == IF Len(samples) > maxS THEN Shift(samples) ELSE samples
    IN  Append(kept, p)

(* faulty variant: pop() instead of shift(): the newest stored sample is dropped *)
addSamplePop(samples, maxS, p) ==
    LET kept == IF Len(samples) >= maxS /\ samples # <<>>
                THEN SubSeq(samples, 1, Len(samples) - 1) ELSE samples
    IN  Append(kept, p)

(* faulty variant: a full window is restarted instead of shifted *)
addSampleRestart(samples, maxS, p) ==
    IF Len(samples) >= maxS THEN <<p>> ELSE Append(samples, p)

addSample(samples, maxS, p) ==
    LET kept == IF Len(samples) >= maxS THEN Shift(samples) ELSE samples
    IN  Append(kept, p)

(* faulty variant: strictly more than minSamples are required *)
isCalibrationCompleteStrict(samples, minS) == Len(samples) > minS

isCalibrationComplete(samples, minS) == Len(samples) >= minS

(* Math.min(100, length / minSamples * 100); 0/0 is NaN, kept as 0/0 *)
getProgress(samples, minS) ==
    IF minS = 0
    THEN IF Len(samples) = 0 THEN Frac(0, 0) ELSE Frac(100, 1)
    ELSE IF Len(samples) * 100 >= 100 * minS THEN Frac(100, 1)
         ELSE Frac(Len(samples) * 100, minS)

(* acc[type] = (acc[type] || 0) + 1 on an object whose keys keep insertion
   order: the entries are a sequence in order of first occurrence *)
CountType(acc, type) ==
    IF \E i \in DOMAIN acc : acc[i].type = type
    THEN [i \in DOMAIN acc |->
            IF acc[i].type = type
            THEN [type |-> type, count |-> acc[i].count + 1] ELSE acc[i]]
    ELSE Append(acc, [type |-> type, count |-> 1])

RECURSIVE CountTypes(_, _)
CountTypes(acc, types) ==
    IF types = <<>> THEN acc
    ELSE CountTypes(CountType(acc, Head(types)), Tail(types))

(* entries.reduce((a, b) => counts[a[0]] > counts[b[0]] ? a : b) from a on *)
RECURSIVE ReduceEntries(_, _)
RECURSIVE ReduceEntriesKeepFirst(_, _)

(* faulty variant: >= keeps the earlier entry on a tie *)
ReduceEntriesKeepFirst(a, rest) ==
    IF rest = <<>> THEN a
    ELSE ReduceEntriesKeepFirst(IF a.count >= Head(rest).count THEN a ELSE Head(rest),
                                Tail(rest))

ReduceEntries(a, rest) ==
    IF rest = <<>> THEN a
    ELSE ReduceEntries(IF a.count > Head(rest).count THEN a ELSE Head(rest),
                       Tail(rest))

TypeError == "TypeError"

(* reduce without an initial value throws a TypeError on an empty array *)
getMostCommonPostureType(types) ==
    LET counts == CountTypes(<<>>, types)
    IN  IF counts = <<>> THEN TypeError
        ELSE ReduceEntries(Head(counts), Tail(counts)).type

(* faulty variant: the spine average is taken from the shoulder sum *)
calculateAverageAnglesCopied(allAngles) ==
    LET count == Len(allAngles)
        sum(f) == SeqSum([i \in DOMAIN allAngles |-> allAngles[i][f]])
    IN  [neckAngle |-> Frac(sum("neckAngle"), count),
         shoulderAngle |-> Frac(sum("shoulderAngle"), count),
         spineAngle |-> Frac(sum("shoulderAngle"), count),
         hipAngle |-> Frac(sum("hipAngle"), count),
         kneeAngle |-> Frac(sum("kneeAngle"), count)]

calculateAverageAngles(allAngles) ==
    LET count == Len(allAngles)
        sum(f) == SeqSum([i \in DOMAIN allAngles |-> allAngles[i][f]])
    IN  [neckAngle |-> Frac(sum("neckAngle"), count),
         shoulderAngle |-> Frac(sum("shoulderAngle"), count),
         spineAngle |-> Frac(sum("spineAngle"), count),
         hipAngle |-> Frac(sum("hipAngle"), count),
         kneeAngle |-> Frac(sum("kneeAngle"), count)]

Thrown(e) == [thrown |-> e]

(* the mean of the new angles as the reduce builds it from {0, ..., 0}: the
   sum of angle / arr.length, which over no poses at all is the initial 0 *)
averageNewAngle(newAngles, f) ==
    IF newAngles = <<>> THEN Frac(0, 1)
    ELSE Frac(SeqSum([i \in DOMAIN newAngles |-> newAngles[i][f]]), Len(newAngles))

(* faulty variant: the weights of the baseline and of the new poses are
   exchanged *)
updateBaselineSwapped(b, newPoses, weight, date) ==
    LET newAngles == [i \in DOMAIN newPoses |-> calculateAngles(newPoses[i])]
        updated(f) ==
            LET avg == averageNewAngle(newAngles, f)
            IN  Frac(b.optimalAngles[f] * weight * avg.den + avg.num * (10 - weight),
                     10 * avg.den)
    IN  [b EXCEPT !.optimalAngles =
                      [neckAngle |-> updated("neckAngle"),
                       shoulderAngle |-> updated("shoulderAngle"),
                       spineAngle |-> updated("spineAngle"),
                       hipAngle |-> updated("hipAngle"),
                       kneeAngle |-> updated("kneeAngle")],
                  !.updatedAt = date]

(* updateBaseline(b, newPoses, weight), the weight in tenths (0.1 is 1), the
   clock reading date; the baseline's angles are whole degrees, the updated
   ones exact fractions *)
updateBaseline(b, newPoses, weight, date) ==
    LET newAngles == [i \in DOMAIN newPoses |-> calculateAngles(newPoses[i])]
        updated(f) ==
            LET avg == averageNewAngle(newAngles, f)
            IN  Frac(b.optimalAngles[f] * (10 - weight) * avg.den + avg.num * weight,
                     10 * avg.den)
    IN  [b EXCEPT !.optimalAngles =
                      [neckAngle |-> updated("neckAngle"),
                       shoulderAngle |-> updated("shoulderAngle"),
                       spineAngle |-> updated("spineAngle"),
                       hipAngle |-> updated("hipAngle"),
                       kneeAngle |-> updated("kneeAngle")],
                  !.updatedAt = date]

createBaseline(samples, minS, userId, date) ==
    IF ~isCalibrationComplete(samples, minS) THEN NULL
    ELSE LET postureTypes == [i \in DOMAIN samples |-> detectPostureType(samples[i])]
             postureType == getMostCommonPostureType(postureTypes)
             allAngles == [i \in DOMAIN samples |-> calculateAngles(samples[i])]
             optimalAngles == calculateAverageAngles(allAngles)
         IN  IF postureType = TypeError THEN Thrown(TypeError)
             ELSE [userId |-> userId,
                   postureType |-> postureType,
                   optimalAngles |-> optimalAngles,
                   samples |-> samples,
                   createdAt |-> date,
                   updatedAt |-> date]

getSamples(samples) == [i \in DOMAIN samples |-> samples[i]]

UserIds == {"u1"}

AddSample ==
    /\ clock < MaxAdds
    /\ \E k \in CalibrationKeypoints :
          LET p == Pose(k, clock + 1)
          IN  /\ calibrationSamples' = addSample(calibrationSamples, maxSamples, p)
              /\ added' = Append(added, p)
    /\ clock' = clock + 1
    /\ op' = "addSample"
    /\ ret' = [bool |-> isCalibrationComplete(calibrationSamples', minSamples)]
    /\ UNCHANGED <<appVars, minSamples, maxSamples, anaVars, funVars, analyzerVars>>

IsCalibrationComplete ==
    /\ op' = "isCalibrationComplete"
    /\ ret' = [bool |-> isCalibrationComplete(calibrationSamples, minSamples)]
    /\ UNCHANGED <<appVars, minSamples, maxSamples, calibrationSamples, added, clock, anaVars, funVars, analyzerVars>>

GetProgress ==
    /\ op' = "getProgress"
    /\ ret' = [number |-> getProgress(calibrationSamples, minSamples)]
    /\ UNCHANGED <<appVars, minSamples, maxSamples, calibrationSamples, added, clock, anaVars, funVars, analyzerVars>>

CreateBaseline ==
    /\ \E userId \in UserIds :
          ret' = createBaseline(calibrationSamples, minSamples, userId, clock)
    /\ op' = "createBaseline"
    /\ UNCHANGED <<appVars, minSamples, maxSamples, calibrationSamples, added, clock, anaVars, funVars, analyzerVars>>

(* faulty variant: the window survives the reset *)
ResetKeepingWindow ==
    /\ added' = <<>>
    /\ op' = "reset"
    /\ ret' = NULL
    /\ UNCHANGED <<appVars, minSamples, maxSamples, calibrationSamples, clock, anaVars, funVars,
                   analyzerVars>>

Reset ==
    /\ calibrationSamples' = <<>>
    /\ added' = <<>>
    /\ op' = "reset"
    /\ ret' = NULL
    /\ UNCHANGED <<appVars, minSamples, maxSamples, clock, anaVars, funVars, analyzerVars>>

GetSamples ==
    /\ op' = "getSamples"
    /\ ret' = [samples |-> getSamples(calibrationSamples)]
    /\ UNCHANGED <<appVars, minSamples, maxSamples, calibrationSamples, added, clock, anaVars, funVars, analyzerVars>>

(* no call of a pure function is in progress *)
FunctionIdle ==
    /\ input = NULL
    /\ output = NULL

(* no PostureAnalyzer is in use *)
AnalyzerIdle ==
    /\ userBaseline = NULL
    /\ previousPose = NULL
    /\ issueDetectionThreshold = 50
    /\ metrics = NULL

(* no scoring or detection call is in progress *)
AnalysisIdle ==
    /\ FunctionIdle
    /\ AnalyzerIdle
    /\ pc = "idle"
    /\ pose = NULL
    /\ angles = NULL
    /\ baseline = NULL
    /\ threshold = 50
    /\ now = 0
    /\ score = NULL
    /\ issues = <<>>

(* no PoseDetector is in use *)
DetectorIdle ==
    /\ model = NULL
    /\ loaded = 0
    /\ disposed = {}
    /\ everInitialized = FALSE
    /\ call = "constructor"
    /\ result = NULL

INFERENCE_INTERVAL == 50

DefaultAutoHideDuration == 5000

(* no AlertBanner is mounted *)
BannerIdle ==
    /\ bannerIssues = <<>>
    /\ autoHideDuration = DefaultAutoHideDuration
    /\ visibleIssues = <<>>
    /\ timer = FALSE
    /\ closing = {}

(* no PoseEstimationCamera is mounted; Date.now() is far from 0 *)
CameraIdle ==
    /\ frames = <<>>
    /\ isProcessing = FALSE
    /\ lastInferenceTime = 0
    /\ cameraClock = 2 * INFERENCE_INTERVAL
    /\ loops = <<>>

(* nothing of the application around the analysis is in use *)
AppIdle == DetectorIdle /\ BannerIdle /\ CameraIdle

(* new CalibrationManager(m) *)
Constructed(m) ==
    /\ minSamples = m
    /\ maxSamples = m * 2
    /\ calibrationSamples = <<>>
    /\ added = <<>>
    /\ clock = 0
    /\ op = "constructor"
    /\ ret = NULL

(* a manager constructed for a sample count: a positive integer *)
Init ==
    /\ \E m \in 1 .. MaxMinSamples : Constructed(m)
    /\ AppIdle
    /\ AnalysisIdle

Next ==
    \/ AddSample
    \/ IsCalibrationComplete
    \/ GetProgress
    \/ CreateBaseline
    \/ Reset
    \/ GetSamples

Spec == Init /\ [][Next]_vars

(* the constructor argument is any integer from 0 on *)
InitAnyMin ==
    /\ \E m \in 0 .. MaxMinSamples : Constructed(m)
    /\ AppIdle
    /\ AnalysisIdle

SpecAnyMin == InitAnyMin /\ [][Next]_vars

-----------------------------------------------------------------------------
(* posture-analysis/src/scoring.ts: calculatePostureScore *)

(* faulty variant: Math.floor instead of Math.round *)
MathFloor(num, den) == num \div den

(* Math.round(num / den): the nearest integer, a half rounded up *)
MathRound(num, den) == (2 * num + den) \div (2 * den)

calculateHeadScore(actualAngle, optimalAngle) ==
    LET deviation == calculateAngleDeviation(actualAngle, optimalAngle)
    IN  IF deviation <= 5 THEN 100
        ELSE IF deviation <= 10 THEN 90
        ELSE IF deviation <= 15 THEN 80
        ELSE IF deviation <= 20 THEN 70
        ELSE IF deviation <= 30 THEN 50
        ELSE 30

calculateShouldersScore(actualAngle, optimalAngle) ==
    LET deviation == calculateAngleDeviation(actualAngle, optimalAngle)
    IN  IF deviation <= 5 THEN 100
        ELSE IF deviation <= 10 THEN 90
        ELSE IF deviation <= 20 THEN 75
        ELSE IF deviation <= 30 THEN 60
        ELSE 40

(* faulty variant: the upper bounds are exclusive *)
calculateSpineScoreExclusive(actualAngle, optimalAngle) ==
    LET deviation == calculateAngleDeviation(actualAngle, optimalAngle)
    IN  IF deviation < 5 THEN 100
        ELSE IF deviation < 10 THEN 85
        ELSE IF deviation < 15 THEN 70
        ELSE IF deviation < 25 THEN 50
        ELSE 30

(* faulty variant: the spine is scored with the head's table *)
calculateSpineScoreAsHead(actualAngle, optimalAngle) ==
    calculateHeadScore(actualAngle, optimalAngle)

calculateSpineScore(actualAngle, optimalAngle) ==
    LET deviation == calculateAngleDeviation(actualAngle, optimalAngle)
    IN  IF deviation <= 5 THEN 100
        ELSE IF deviation <= 10 THEN 85
        ELSE IF deviation <= 15 THEN 70
        ELSE IF deviation <= 25 THEN 50
        ELSE 30

calculateHipsScore(actualAngle, optimalAngle) ==
    LET deviation == calculateAngleDeviation(actualAngle, optimalAngle)
    IN  IF deviation <= 10 THEN 100
        ELSE IF deviation <= 20 THEN 85
        ELSE IF deviation <= 30 THEN 70
        ELSE IF deviation <= 40 THEN 55
        ELSE 40

(* faulty variant: the sitting defaults for every posture type *)
getDefaultOptimalAnglesSitting(postureType) ==
    [neckAngle |-> 15, shoulderAngle |-> 90, spineAngle |-> 95,
     hipAngle |-> 90, kneeAngle |-> 90]

getDefaultOptimalAngles(postureType) ==
    IF postureType = SITTING
    THEN [neckAngle |-> 15, shoulderAngle |-> 90, spineAngle |-> 95,
          hipAngle |-> 90, kneeAngle |-> 90]
    ELSE [neckAngle |-> 0, shoulderAngle |-> 180, spineAngle |-> 180,
          hipAngle |-> 180, kneeAngle |-> 180]

(* the weights 0.25, 0.25, 0.3, 0.2 are in hundredths; so is the sum *)
calculatePostureScore(p, a, b, date) ==
    LET postureType == detectPostureType(p)
        optimalAngles == IF b # NULL THEN b.optimalAngles
                         ELSE getDefaultOptimalAngles(postureType)
        headScore == calculateHeadScore(a.neckAngle, optimalAngles.neckAngle)
        shouldersScore == calculateShouldersScore(a.shoulderAngle, optimalAngles.shoulderAngle)
        spineScore == calculateSpineScore(a.spineAngle, optimalAngles.spineAngle)
        hipsScore == calculateHipsScore(a.hipAngle, optimalAngles.hipAngle)
        weights == [head |-> 25, shoulders |-> 25, spine |-> 30, hips |-> 20]
        overall == headScore * weights.head + shouldersScore * weights.shoulders
                   + spineScore * weights.spine + hipsScore * weights.hips
    IN  [overall |-> MathRound(overall, 100),
         components |-> [head |-> MathRound(headScore, 1),
                         shoulders |-> MathRound(shouldersScore, 1),
                         spine |-> MathRound(spineScore, 1),
                         hips |-> MathRound(hipsScore, 1)],
         timestamp |-> date,
         postureType |-> postureType]

-----------------------------------------------------------------------------
(* posture-analysis/src/scoring.ts (issues): detectPostureIssues.
   An issue's description and recommendation are fixed texts per type and are
   left out; its id is the type's prefix followed by Date.now(). *)

(* faulty variant: the severity bounds are inclusive *)
SeverityInclusive(deviation, severeOver, moderateOver) ==
    IF deviation >= severeOver THEN SEVERE
    ELSE IF deviation >= moderateOver THEN MODERATE
    ELSE MILD

Severity(deviation, severeOver, moderateOver) ==
    IF deviation > severeOver THEN SEVERE
    ELSE IF deviation > moderateOver THEN MODERATE
    ELSE MILD

detectForwardHead(a, b, date) ==
    LET optimalNeckAngle == IF b # NULL /\ b.optimalAngles.neckAngle # 0
                            THEN b.optimalAngles.neckAngle ELSE 15
        deviation == calculateAngleDeviation(a.neckAngle, optimalNeckAngle)
    IN  IF deviation > 10
        THEN [id |-> <<"forward-head-", date>>,
              type |-> FORWARD_HEAD,
              severity |-> Severity(deviation, 25, 15),
              bodyPart |-> "head and neck",
              angle |-> a.neckAngle,
              threshold |-> optimalNeckAngle]
        ELSE NULL

detectRoundedShoulders(p, a, date) ==
    LET leftShoulder == getKeypointByName(p.keypoints, "leftShoulder")
        rightShoulder == getKeypointByName(p.keypoints, "rightShoulder")
        neck == getKeypointByName(p.keypoints, "neck")
    IN  IF leftShoulder = NULL \/ rightShoulder = NULL \/ neck = NULL THEN NULL
        ELSE LET shoulderForwardness ==
                     ((leftShoulder.x + rightShoulder.x) \div 2) - neck.x
             IN  IF Abs(shoulderForwardness) > 5
                 THEN [id |-> <<"rounded-shoulders-", date>>,
                       type |-> ROUNDED_SHOULDERS,
                       severity |-> Severity(Abs(shoulderForwardness), 10, 7),
                       bodyPart |-> "shoulders"]
                 ELSE NULL

(* faulty variant: without a baseline the spine is measured against 180 *)
detectSlouchingUpright(a, b, date) ==
    LET optimalSpineAngle == IF b # NULL /\ b.optimalAngles.spineAngle # 0
                             THEN b.optimalAngles.spineAngle ELSE 180
        deviation == calculateAngleDeviation(a.spineAngle, optimalSpineAngle)
    IN  IF deviation > 10
        THEN [id |-> <<"slouching-", date>>,
              type |-> SLOUCHING,
              severity |-> Severity(deviation, 25, 15),
              bodyPart |-> "spine",
              angle |-> a.spineAngle,
              threshold |-> optimalSpineAngle]
        ELSE NULL

detectSlouching(a, b, date) ==
    LET optimalSpineAngle == IF b # NULL /\ b.optimalAngles.spineAngle # 0
                             THEN b.optimalAngles.spineAngle ELSE 95
        deviation == calculateAngleDeviation(a.spineAngle, optimalSpineAngle)
    IN  IF deviation > 10
        THEN [id |-> <<"slouching-", date>>,
              type |-> SLOUCHING,
              severity |-> Severity(deviation, 25, 15),
              bodyPart |-> "spine",
              angle |-> a.spineAngle,
              threshold |-> optimalSpineAngle]
        ELSE NULL

detectUnevenHips(p, date) ==
    LET leftHip == getKeypointByName(p.keypoints, "leftHip")
        rightHip == getKeypointByName(p.keypoints, "rightHip")
    IN  IF leftHip = NULL \/ rightHip = NULL THEN NULL
        ELSE LET hipDifference == Abs(leftHip.y - rightHip.y)
             IN  IF hipDifference > 5
                 THEN [id |-> <<"uneven-hips-", date>>,
                       type |-> UNEVEN_HIPS,
                       severity |-> Severity(hipDifference, 10, 7),
                       bodyPart |-> "hips"]
                 ELSE NULL

detectUnevenShoulders(p, date) ==
    LET leftShoulder == getKeypointByName(p.keypoints, "leftShoulder")
        rightShoulder == getKeypointByName(p.keypoints, "rightShoulder")
    IN  IF leftShoulder = NULL \/ rightShoulder = NULL THEN NULL
        ELSE LET shoulderDifference == Abs(leftShoulder.y - rightShoulder.y)
             IN  IF shoulderDifference > 5
                 THEN [id |-> <<"uneven-shoulders-", date>>,
                       type |-> UNEVEN_SHOULDERS,
                       severity |-> Severity(shoulderDifference, 10, 7),
                       bodyPart |-> "shoulders"]
                 ELSE NULL

(* if (issue) issues.push(issue) *)
Push(list, issue) == IF issue # NULL THEN Append(list, issue) ELSE list

(* the five checks, in the order the code runs them *)
DetectedIssues(p, a, b, date) ==
    Push(Push(Push(Push(Push(<<>>,
        detectForwardHead(a, b, date)),
        detectRoundedShoulders(p, a, date)),
        detectSlouching(a, b, date)),
        detectUnevenHips(p, date)),
        detectUnevenShoulders(p, date))

(* faulty variant: the threshold comparisons are strict *)
PassesThresholdStrict(issue, t) ==
    \/ issue.severity = SEVERE
    \/ (issue.severity = MODERATE /\ t < 50)
    \/ t < 30

(* the filter's predicate; the threshold is in hundredths *)
PassesThreshold(issue, t) ==
    \/ issue.severity = SEVERE
    \/ (issue.severity = MODERATE /\ t <= 50)
    \/ t <= 30

detectPostureIssues(p, a, b, t, date) ==
    SelectSeq(DetectedIssues(p, a, b, date), LAMBDA issue : PassesThreshold(issue, t))

-----------------------------------------------------------------------------
(* Calls of calculatePostureScore and detectPostureIssues on bounded inputs *)

MaxDeviation == 45

Baseline(optimalAngles) ==
    [userId |-> "u1", postureType |-> SITTING, optimalAngles |-> optimalAngles,
     samples |-> <<>>, createdAt |-> 0, updatedAt |-> 0]

PersonalBaseline ==
    Baseline([neckAngle |-> 30, shoulderAngle |-> 100, spineAngle |-> 105,
              hipAngle |-> 110, kneeAngle |-> 90])

ZeroBaseline ==
    Baseline([neckAngle |-> 0, shoulderAngle |-> 0, spineAngle |-> 0,
              hipAngle |-> 0, kneeAngle |-> 0])

Angles(n, sh, sp, h) ==
    [neckAngle |-> n, shoulderAngle |-> sh, spineAngle |-> sp,
     hipAngle |-> h, kneeAngle |-> 90]

(* the angles within MaxDeviation of c *)
Around(c) == {v \in 0 .. 180 : Abs(v - c) <= MaxDeviation}

(* one angle per score band of every component, in every combination, and
   every angle within MaxDeviation of the sitting optimum, one component at
   a time *)
ScoreAngles ==
    {Angles(n, sh, sp, h) : n \in {20, 25, 30, 35, 45, 46},
                            sh \in {95, 100, 110, 120, 121},
                            sp \in {100, 105, 110, 120, 121},
                            h \in {100, 110, 120, 130, 131}}
    \cup {Angles(n, 90, 95, 90) : n \in Around(15)}
    \cup {Angles(15, sh, 95, 90) : sh \in Around(90)}
    \cup {Angles(15, 90, sp, 90) : sp \in Around(95)}
    \cup {Angles(15, 90, 95, h) : h \in Around(90)}
    \cup {Angles(n, 180, 180, 180) : n \in Around(0)}
    \cup {Angles(0, sh, 180, 180) : sh \in Around(180)}
    \cup {Angles(0, 180, sp, 180) : sp \in Around(180)}
    \cup {Angles(0, 180, 180, h) : h \in Around(180)}

ScorePoses == {Pose(SitUprightKeypoints, 0), Pose(StandKeypoints, 0),
               Pose(UpperBodyKeypoints, 0)}

(* the shoulder midpoint is off to the side of the neck by forward, the right
   shoulder is shoulderDrop lower than the left, the right hip hipDrop lower *)
IssueKeypoints(forward, shoulderDrop, hipDrop) ==
    Moved(Moved(Moved(SitUprightKeypoints,
        "leftShoulder", 40 + 2 * forward, 40),
        "rightShoulder", 60, 40 + shoulderDrop),
        "rightHip", 60, 70 + hipDrop)

(* only the head and the neck are in frame *)
HeadOnlyKeypoints == SubSeq(SitUprightKeypoints, 1, 2)

IssuePoses ==
    {Pose(IssueKeypoints(f, s, h), 0) : f \in {-11, 5, 7, 10, 11},
                                        s \in {5, 7, 10, 11},
                                        h \in {-7, 5, 10, 11}}
    \cup {Pose(HeadOnlyKeypoints, 0), Pose(StandKeypoints, 0)}

IssueAngles ==
    {Angles(n, 90, sp, 90) : n \in {4, 5, 15, 25, 26, 30, 31, 40, 41},
                             sp \in {84, 85, 95, 105, 106, 110, 111, 120, 121, 180}}

Thresholds == {20, 30, 31, 50, 51}

CalculatePostureScore ==
    /\ pc = "score"
    /\ score' = calculatePostureScore(pose, angles, baseline, now)
    /\ pc' = "scored"
    /\ UNCHANGED <<appVars, calVars, funVars, analyzerVars, pose, angles, baseline, threshold, now, issues>>

DetectPostureIssues ==
    /\ pc = "detect"
    /\ issues' = detectPostureIssues(pose, angles, baseline, threshold, now)
    /\ pc' = "detected"
    /\ UNCHANGED <<appVars, calVars, funVars, analyzerVars, pose, angles, baseline, threshold, now, score>>

InitScore ==
    /\ Constructed(1)
    /\ AppIdle
    /\ pc = "score"
    /\ pose \in ScorePoses
    /\ angles \in ScoreAngles
    /\ baseline \in {NULL, PersonalBaseline, ZeroBaseline}
    /\ threshold = 50
    /\ now \in 0 .. MaxNow
    /\ score = NULL
    /\ issues = <<>>
    /\ FunctionIdle
    /\ AnalyzerIdle

NextScore == CalculatePostureScore

SpecScore == InitScore /\ [][NextScore]_vars

InitIssues ==
    /\ Constructed(1)
    /\ AppIdle
    /\ pc = "detect"
    /\ pose \in IssuePoses
    /\ angles \in IssueAngles
    /\ baseline \in {NULL, PersonalBaseline, ZeroBaseline}
    /\ threshold \in Thresholds
    /\ now \in 0 .. MaxNow
    /\ score = NULL
    /\ issues = <<>>
    /\ FunctionIdle
    /\ AnalyzerIdle

NextIssues == DetectPostureIssues

SpecIssues == InitIssues /\ [][NextIssues]_vars

-----------------------------------------------------------------------------
(* Properties of calculatePostureScore *)

(* C1: the returned overall is the weighted sum of the returned components
   (0.25, 0.25, 0.30, 0.20) rounded to the nearest integer, a half rounded
   up, and lies in 0 .. 100.  In hundredths: overall - 1/2 <= W < overall + 1/2
   is 100 * overall <= W + 50 < 100 * overall + 100. *)
C1_OverallIsRoundedWeightedSum ==
    pc = "scored" =>
        LET c == score.components
            W == 25 * c.head + 25 * c.shoulders + 30 * c.spine + 20 * c.hips
        IN  /\ score.overall \in 0 .. 100
            /\ 100 * score.overall <= W + 50
            /\ W + 50 < 100 * score.overall + 100

(* head 90, shoulders 100, spine 100, hips 100: 97.5 is rounded up to 98 *)
C1_Witness ==
    /\ pc = "scored"
    /\ score.components = [head |-> 90, shoulders |-> 100, spine |-> 100, hips |-> 100]
    /\ score.overall = 98

(* the documented step functions: <<inclusive upper bound, score>>, then the
   score past the last bound *)
HeadSteps == << <<5, 100>>, <<10, 90>>, <<15, 80>>, <<20, 70>>, <<30, 50>> >>
ShouldersSteps == << <<5, 100>>, <<10, 90>>, <<20, 75>>, <<30, 60>> >>
SpineSteps == << <<5, 100>>, <<10, 85>>, <<15, 70>>, <<25, 50>> >>
HipsSteps == << <<10, 100>>, <<20, 85>>, <<30, 70>>, <<40, 55>> >>

StepScore(steps, else, d) ==
    IF \E i \in DOMAIN steps : d <= steps[i][1]
    THEN LET i == CHOOSE i \in DOMAIN steps :
                      /\ d <= steps[i][1]
                      /\ \A j \in DOMAIN steps : d <= steps[j][1] => i <= j
         IN  steps[i][2]
    ELSE else

(* the optimal angles of the call: the baseline's, else the defaults of the
   posture type reported in the score *)
OptimalOfCall ==
    IF baseline # NULL THEN baseline.optimalAngles
    ELSE getDefaultOptimalAngles(score.postureType)

(* C2: each component score is the documented step function of the deviation
   |actual - optimal|, and no component score is higher at a larger deviation
   (every deviation from 0 to MaxDeviation + 1 is compared with the next). *)
C2_ComponentsAreStepFunctions ==
    pc = "scored" =>
        LET c == score.components
            o == OptimalOfCall
        IN  /\ c.head = StepScore(HeadSteps, 30, Abs(angles.neckAngle - o.neckAngle))
            /\ c.shoulders = StepScore(ShouldersSteps, 40,
                                       Abs(angles.shoulderAngle - o.shoulderAngle))
            /\ c.spine = StepScore(SpineSteps, 30, Abs(angles.spineAngle - o.spineAngle))
            /\ c.hips = StepScore(HipsSteps, 40, Abs(angles.hipAngle - o.hipAngle))
            /\ \A d \in 0 .. MaxDeviation :
                  /\ calculateHeadScore(o.neckAngle + d + 1, o.neckAngle)
                        <= calculateHeadScore(o.neckAngle + d, o.neckAngle)
                  /\ calculateShouldersScore(o.shoulderAngle + d + 1, o.shoulderAngle)
                        <= calculateShouldersScore(o.shoulderAngle + d, o.shoulderAngle)
                  /\ calculateSpineScore(o.spineAngle + d + 1, o.spineAngle)
                        <= calculateSpineScore(o.spineAngle + d, o.spineAngle)
                  /\ calculateHipsScore(o.hipAngle + d + 1, o.hipAngle)
                        <= calculateHipsScore(o.hipAngle + d, o.hipAngle)

(* the actual angles are below the optimum by exactly an inclusive bound *)
C2_Witness ==
    /\ pc = "scored"
    /\ baseline = PersonalBaseline
    /\ angles.neckAngle = 20
    /\ angles.spineAngle = 95
    /\ score.components.head = 90
    /\ score.components.spine = 85

-----------------------------------------------------------------------------
(* Properties of detectPostureIssues *)

(* the returned issue of the type, NULL when there is none *)
Returned(type) ==
    IF \E i \in DOMAIN issues : issues[i].type = type
    THEN issues[CHOOSE i \in DOMAIN issues : issues[i].type = type]
    ELSE NULL

(* the severity bands of C9 *)
BandOf(deviation) ==
    IF deviation > 25 THEN SEVERE
    ELSE IF 15 < deviation /\ deviation <= 25 THEN MODERATE
    ELSE MILD

(* C9: with no baseline and a threshold that lets every severity pass, a
   forward-head issue is returned iff |neckAngle - 15| > 10 and a slouching
   issue iff |spineAngle - 95| > 10; for every threshold a returned one is
   severe iff the deviation is over 25, moderate iff over 15 and at most 25,
   mild otherwise.  neckAngle 30 on a sitting pose scores head 80 and is a
   mild forward-head issue. *)
C9_DefaultNeckAndSpineBands ==
    pc = "detected" /\ baseline = NULL =>
        LET neckDeviation == Abs(angles.neckAngle - 15)
            spineDeviation == Abs(angles.spineAngle - 95)
            forwardHead == Returned(FORWARD_HEAD)
            slouching == Returned(SLOUCHING)
        IN  /\ threshold <= 30 => (forwardHead # NULL <=> neckDeviation > 10)
            /\ threshold <= 30 => (slouching # NULL <=> spineDeviation > 10)
            /\ forwardHead # NULL =>
                  neckDeviation > 10 /\ forwardHead.severity = BandOf(neckDeviation)
            /\ slouching # NULL =>
                  spineDeviation > 10 /\ slouching.severity = BandOf(spineDeviation)
            /\ (angles.neckAngle = 30 /\ detectPostureType(pose) = SITTING) =>
                  /\ calculatePostureScore(pose, angles, baseline, now).components.head = 80
                  /\ threshold <= 30 => forwardHead # NULL /\ forwardHead.severity = MILD
                  /\ threshold > 30 => forwardHead = NULL

C9_Witness ==
    /\ pc = "detected"
    /\ baseline = NULL
    /\ angles.neckAngle = 30
    /\ angles.spineAngle = 120
    /\ detectPostureType(pose) = SITTING
    /\ threshold = 30
    /\ Returned(FORWARD_HEAD) # NULL
    /\ Returned(FORWARD_HEAD).severity = MILD
    /\ Returned(SLOUCHING).severity = MODERATE

(* the position of the detected issue of a type; each check yields at most one *)
DetectedAt(all, type) == CHOOSE i \in DOMAIN all : all[i].type = type

(* C10: of the issues the five checks detect, a severe one is returned for
   every threshold, a moderate one exactly when threshold <= 0.5, a mild one
   exactly when threshold <= 0.3; nothing else is returned, and the returned
   issues keep the order of detection. *)
C10_ThresholdFilter ==
    pc = "detected" =>
        LET all == DetectedIssues(pose, angles, baseline, now)
            returned == {issues[j] : j \in DOMAIN issues}
        IN  /\ returned \subseteq {all[i] : i \in DOMAIN all}
            /\ \A i \in DOMAIN all :
                  /\ all[i].severity = SEVERE => all[i] \in returned
                  /\ all[i].severity = MODERATE => (all[i] \in returned <=> threshold <= 50)
                  /\ all[i].severity = MILD => (all[i] \in returned <=> threshold <= 30)
            /\ \A j, k \in DOMAIN issues :
                  j < k => DetectedAt(all, issues[j].type) < DetectedAt(all, issues[k].type)

(* a mild, a moderate and two severe issues are detected at threshold 0.5:
   the moderate and the severe ones are returned, in detection order *)
C10_Witness ==
    /\ pc = "detected"
    /\ threshold = 50
    /\ Len(DetectedIssues(pose, angles, baseline, now)) = 5
    /\ Len(issues) = 3
    /\ issues[1].type = FORWARD_HEAD /\ issues[1].severity = MODERATE
    /\ issues[2].type = SLOUCHING /\ issues[2].severity = SEVERE
    /\ issues[3].type = UNEVEN_SHOULDERS /\ issues[3].severity = SEVERE

-----------------------------------------------------------------------------
(* Properties of the CalibrationManager *)

Min(a, b) == IF a < b THEN a ELSE b

(* the most recent min(n, maxSamples) poses added since the last reset *)
RecentAdded ==
    LET n == Len(added)
        k == Min(n, maxSamples)
    IN  SubSeq(added, n - k + 1, n)

IsBaseline(r) == DOMAIN r = {"userId", "postureType", "optimalAngles",
                             "samples", "createdAt", "updatedAt"}

AngleNames == {"neckAngle", "shoulderAngle", "spineAngle", "hipAngle", "kneeAngle"}

(* C3 as stated: for a manager constructed with any minSamples, the number
   of stored samples never exceeds maxSamples = 2 * minSamples. *)
C3_WindowWithinMaxAnyMin ==
    Len(calibrationSamples) <= maxSamples

(* C3 amended: for a manager constructed with a minSamples of at least 1,
   the number of stored samples never exceeds maxSamples = 2 * minSamples. *)
C3_WindowWithinMax ==
    minSamples >= 1 =>
        /\ maxSamples = 2 * minSamples
        /\ Len(calibrationSamples) <= maxSamples

C3_Witness ==
    /\ minSamples >= 1
    /\ op = "addSample"
    /\ Len(added) > maxSamples
    /\ Len(calibrationSamples) = maxSamples

(* C4: the window always holds, in arrival order, the most recent
   min(n, maxSamples) samples added since the last reset, so an addSample on a
   full window has removed exactly the oldest sample and put the new one
   last; getSamples returns that sequence. *)
C4_WindowIsMostRecent ==
    /\ calibrationSamples = RecentAdded
    /\ op = "getSamples" => ret.samples = RecentAdded

C4_Witness ==
    /\ op = "getSamples"
    /\ Len(added) > maxSamples
    /\ ret.samples = SubSeq(added, Len(added) - maxSamples + 1, Len(added))
    /\ ret.samples[1].timestamp > added[1].timestamp

(* C5: addSample returns true exactly when the window holds at least
   minSamples samples after the append; once the manager is complete, every
   step other than reset leaves it complete and every addSample returns true. *)
C5_CompleteUntilReset ==
    [][ /\ op' = "addSample" =>
              (ret'.bool <=> Len(calibrationSamples') >= minSamples)
        /\ (Len(calibrationSamples) >= minSamples /\ op' # "reset") =>
              /\ Len(calibrationSamples') >= minSamples
              /\ op' = "addSample" => ret'.bool
              /\ op' = "isCalibrationComplete" => ret'.bool ]_vars

C5_Witness ==
    /\ op = "addSample"
    /\ ret.bool
    /\ Len(added) > maxSamples
    /\ Len(calibrationSamples) >= minSamples

(* C6: createBaseline returns null when fewer than minSamples samples are
   stored and a baseline otherwise (never an exception), and leaves the
   window as it was. *)
C6_CreateBaselineNullOrBaseline ==
    [][ op' = "createBaseline" =>
          /\ calibrationSamples' = calibrationSamples
          /\ Len(calibrationSamples) < minSamples => ret' = NULL
          /\ Len(calibrationSamples) >= minSamples => IsBaseline(ret') ]_vars

C6_Witness ==
    /\ op = "createBaseline"
    /\ ret = NULL
    /\ calibrationSamples # <<>>
    /\ Len(calibrationSamples) = minSamples - 1

(* the posture types of the stored samples, and how often each occurs *)
StoredTypes == [i \in DOMAIN calibrationSamples |-> detectPostureType(calibrationSamples[i])]

Occurrences(types, t) == Cardinality({i \in DOMAIN types : types[i] = t})

FirstIndex(types, t) == CHOOSE i \in DOMAIN types :
    /\ types[i] = t
    /\ \A j \in DOMAIN types : types[j] = t => i <= j

(* the types with the highest count *)
MostCommon(types) ==
    {types[i] : i \in {i \in DOMAIN types :
        \A j \in DOMAIN types : Occurrences(types, types[j]) <= Occurrences(types, types[i])}}

(* C7 as stated: the baseline's postureType is a most common type of the
   stored samples, and among tied types the one encountered first. *)
C7_TieGoesToFirstEncountered ==
    (op = "createBaseline" /\ IsBaseline(ret)) =>
        /\ ret.postureType \in MostCommon(StoredTypes)
        /\ \A t \in MostCommon(StoredTypes) :
              FirstIndex(StoredTypes, ret.postureType) <= FirstIndex(StoredTypes, t)

(* C7 amended: the baseline's postureType is a most common type of the
   stored samples, and among tied types the one whose first occurrence in
   sample order comes last. *)
C7_TieGoesToLastEncountered ==
    (op = "createBaseline" /\ IsBaseline(ret)) =>
        /\ ret.postureType \in MostCommon(StoredTypes)
        /\ \A t \in MostCommon(StoredTypes) :
              FirstIndex(StoredTypes, t) <= FirstIndex(StoredTypes, ret.postureType)

C7_Witness ==
    /\ op = "createBaseline"
    /\ IsBaseline(ret)
    /\ Cardinality(MostCommon(StoredTypes)) >= 2
    /\ ret.postureType \in MostCommon(StoredTypes)
    /\ FirstIndex(StoredTypes, ret.postureType) > 1

(* C8: each optimal angle of a created baseline is the sum of that angle over
   the samples in the window (the most recent min(n, maxSamples) added, the
   evicted ones excluded) divided by their number; when all of them have the
   same value v, it is v. *)
C8_OptimalAnglesAreWindowMean ==
    (op = "createBaseline" /\ IsBaseline(ret)) =>
        \A f \in AngleNames :
            LET values == [i \in DOMAIN RecentAdded |-> calculateAngles(RecentAdded[i])[f]]
                mean == ret.optimalAngles[f]
            IN  /\ mean.den = Len(RecentAdded)
                /\ mean.den > 0
                /\ mean.num = SeqSum(values)
                /\ \A v \in 0 .. 180 :
                      (\A i \in DOMAIN values : values[i] = v) => mean.num = v * mean.den

C8_Witness ==
    /\ op = "createBaseline"
    /\ IsBaseline(ret)
    /\ Len(added) > maxSamples
    /\ calculateAngles(added[1]).hipAngle # calculateAngles(added[Len(added)]).hipAngle
    /\ \E i, j \in DOMAIN calibrationSamples :
          calculateAngles(calibrationSamples[i]).hipAngle
              # calculateAngles(calibrationSamples[j]).hipAngle
    /\ ret.optimalAngles.hipAngle.den = maxSamples

-----------------------------------------------------------------------------
(* Properties of detectForwardHead and detectSlouching with a baseline *)

(* C11: with a baseline, the forward-head deviation is taken from
   baseline.optimalAngles.neckAngle and the slouching deviation from
   baseline.optimalAngles.spineAngle, whatever their values (0 included):
   at a threshold that lets every severity pass an issue is returned iff
   that deviation is over 10, and a returned issue has the severity of that
   deviation and reports the baseline angle as its threshold. *)
C11_BaselineAnglesAreTheReference ==
    pc = "detected" /\ baseline # NULL =>
        LET neckDeviation == Abs(angles.neckAngle - baseline.optimalAngles.neckAngle)
            spineDeviation == Abs(angles.spineAngle - baseline.optimalAngles.spineAngle)
            forwardHead == Returned(FORWARD_HEAD)
            slouching == Returned(SLOUCHING)
        IN  /\ threshold <= 30 => (forwardHead # NULL <=> neckDeviation > 10)
            /\ threshold <= 30 => (slouching # NULL <=> spineDeviation > 10)
            /\ forwardHead # NULL =>
                  /\ forwardHead.severity = BandOf(neckDeviation)
                  /\ forwardHead.threshold = baseline.optimalAngles.neckAngle
            /\ slouching # NULL =>
                  /\ slouching.severity = BandOf(spineDeviation)
                  /\ slouching.threshold = baseline.optimalAngles.spineAngle

-----------------------------------------------------------------------------
(* scoring.ts: prioritizeIssues *)

MaxIssues == 3

severityOrder(severity) ==
    CASE severity = SEVERE -> 0
      [] severity = MODERATE -> 1
      [] severity = MILD -> 2

priorityOrder(type) ==
    CASE type = SLOUCHING -> 0
      [] type = FORWARD_HEAD -> 1
      [] type = ROUNDED_SHOULDERS -> 2
      [] type = UNEVEN_SHOULDERS -> 3
      [] type = UNEVEN_HIPS -> 4
      [] type = EXCESSIVE_LORDOSIS -> 5
      [] type = EXCESSIVE_KYPHOSIS -> 6

(* faulty variant: the comparator stops at the severity *)
compareIssuesSeverityOnly(a, b) ==
    severityOrder(a.severity) - severityOrder(b.severity)

(* the comparator handed to sort *)
compareIssues(a, b) ==
    LET severityDiff == severityOrder(a.severity) - severityOrder(b.severity)
    IN  IF severityDiff # 0 THEN severityDiff
        ELSE priorityOrder(a.type) - priorityOrder(b.type)

(* Array.prototype.sort with compareIssues.  The sort is stable: an element
   goes behind every element that does not compare greater than it. *)
RECURSIVE SortInsert(_, _)
SortInsert(sorted, x) ==
    IF sorted = <<>> THEN <<x>>
    ELSE IF compareIssues(Head(sorted), x) > 0 THEN <<x>> \o sorted
    ELSE <<Head(sorted)>> \o SortInsert(Tail(sorted), x)

RECURSIVE ArraySort(_)
ArraySort(array) ==
    IF array = <<>> THEN <<>>
    ELSE SortInsert(ArraySort(SubSeq(array, 1, Len(array) - 1)), array[Len(array)])

(* the array is sorted in place and returned *)
prioritizeIssues(list) == ArraySort(list)

IssueTypes ==
    {FORWARD_HEAD, ROUNDED_SHOULDERS, SLOUCHING, UNEVEN_HIPS, UNEVEN_SHOULDERS,
     EXCESSIVE_LORDOSIS, EXCESSIVE_KYPHOSIS}

Severities == {MILD, MODERATE, SEVERE}

(* the i-th issue of an input list; the id tells issues of one type apart *)
Issue(type, severity, i) ==
    [id |-> <<type, i>>, type |-> type, severity |-> severity,
     bodyPart |-> "", angle |-> 0, threshold |-> 0]

IssueKinds == IssueTypes \X Severities

(* the kinds the longer lists are made of: every type, every severity *)
SampleKinds ==
    {<<SLOUCHING, SEVERE>>, <<FORWARD_HEAD, SEVERE>>, <<FORWARD_HEAD, MODERATE>>,
     <<UNEVEN_HIPS, MODERATE>>, <<UNEVEN_SHOULDERS, MODERATE>>,
     <<ROUNDED_SHOULDERS, MILD>>, <<EXCESSIVE_LORDOSIS, MILD>>,
     <<EXCESSIVE_KYPHOSIS, MILD>>}

ListsOf(kinds, n) ==
    {[i \in 1 .. n |-> Issue(kind[i][1], kind[i][2], i)] : kind \in [1 .. n -> kinds]}

(* every list of at most two issues of any kind, and every list of three to
   MaxIssues issues of the sample kinds *)
IssueLists ==
    UNION {ListsOf(IssueKinds, n) : n \in 0 .. 2}
    \cup UNION {ListsOf(SampleKinds, n) : n \in 3 .. MaxIssues}

PrioritizeIssues ==
    /\ pc = "prioritize"
    /\ output' = prioritizeIssues(input.issues)
    /\ pc' = "prioritized"
    /\ UNCHANGED <<appVars, calVars, analyzerVars, pose, angles, baseline, threshold, now,
                   score, issues, input>>

InitPrioritize ==
    /\ Constructed(1)
    /\ AppIdle
    /\ pc = "prioritize"
    /\ pose = NULL
    /\ angles = NULL
    /\ baseline = NULL
    /\ threshold = 50
    /\ now = 0
    /\ score = NULL
    /\ issues = <<>>
    /\ input \in {[issues |-> list] : list \in IssueLists}
    /\ output = NULL
    /\ AnalyzerIdle

NextPrioritize == PrioritizeIssues

SpecPrioritize == InitPrioritize /\ [][NextPrioritize]_vars

(* the position of a value in a ranking *)
RankIn(ranking, v) == CHOOSE i \in DOMAIN ranking : ranking[i] = v

SeverityRanking == <<SEVERE, MODERATE, MILD>>

TypeRanking ==
    <<SLOUCHING, FORWARD_HEAD, ROUNDED_SHOULDERS, UNEVEN_SHOULDERS, UNEVEN_HIPS,
      EXCESSIVE_LORDOSIS, EXCESSIVE_KYPHOSIS>>

(* issue a may stand before issue b: more severe, or as severe and of a type
   of higher or equal priority *)
MayPrecede(a, b) ==
    \/ RankIn(SeverityRanking, a.severity) < RankIn(SeverityRanking, b.severity)
    \/ /\ a.severity = b.severity
       /\ RankIn(TypeRanking, a.type) <= RankIn(TypeRanking, b.type)

(* C12: prioritizeIssues returns a permutation of its input, ordered by
   severity (severe, moderate, mild) and within a severity by type priority
   (slouching, forward-head, rounded-shoulders, uneven-shoulders,
   uneven-hips, excessive-lordosis, excessive-kyphosis); issues equal in
   both keep their input order; a severe forward-head issue precedes a
   moderate uneven-hips issue whichever came first in the input. *)
C12_PrioritizeIsStableSort ==
    pc = "prioritized" =>
        LET list == input.issues
        IN  /\ Len(output) = Len(list)
            /\ {output[i] : i \in DOMAIN output} = {list[i] : i \in DOMAIN list}
            /\ \A i, j \in DOMAIN output :
                  i < j =>
                      /\ MayPrecede(output[i], output[j])
                      /\ (output[i].type = output[j].type
                            /\ output[i].severity = output[j].severity)
                         => output[i].id[2] < output[j].id[2]
            /\ \A i, j \in DOMAIN output :
                  (/\ output[i].type = FORWARD_HEAD /\ output[i].severity = SEVERE
                   /\ output[j].type = UNEVEN_HIPS /\ output[j].severity = MODERATE)
                  => i < j

(* a moderate uneven-hips issue given first and two severe forward-head
   issues given after it: both are moved before it, in their input order *)
C12_Witness ==
    /\ pc = "prioritized"
    /\ input.issues = <<Issue(UNEVEN_HIPS, MODERATE, 1),
                        Issue(FORWARD_HEAD, SEVERE, 2),
                        Issue(FORWARD_HEAD, SEVERE, 3)>>
    /\ output = <<Issue(FORWARD_HEAD, SEVERE, 2),
                  Issue(FORWARD_HEAD, SEVERE, 3),
                  Issue(UNEVEN_HIPS, MODERATE, 1)>>

-----------------------------------------------------------------------------
(* calibration.ts: PostureAnalyzer *)

Max(a, b) == IF a >= b THEN a ELSE b

calculateImprovement(currentScore) == Max(0, currentScore - 70)

(* faulty variant: the pose analysed before, when there is one, stands in
   for the pose given *)
analyzePoseOnPrevious(p, b, t, date) ==
    LET q == IF previousPose # NULL THEN previousPose ELSE p
        a == calculateAngles(q)
        currentPosture == calculatePostureScore(q, a, b, date)
    IN  [currentPosture |-> currentPosture,
         issues |-> detectPostureIssues(q, a, b, t, date),
         angles |-> a,
         improvement |-> IF b # NULL THEN calculateImprovement(currentPosture.overall)
                         ELSE 0,
         duration |-> 0]

(* analyzePose(p) on an analyzer holding baseline b and threshold t, the
   clock reading date; the issues are those detectPostureIssues returns *)
analyzePose(p, b, t, date) ==
    LET a == calculateAngles(p)
        currentPosture == calculatePostureScore(p, a, b, date)
    IN  [currentPosture |-> currentPosture,
         issues |-> detectPostureIssues(p, a, b, t, date),
         angles |-> a,
         improvement |-> IF b # NULL THEN calculateImprovement(currentPosture.overall)
                         ELSE 0,
         duration |-> 0]

(* the poses handed to the analyzer *)
AnalyzerPoses ==
    {Pose(k, 0) : k \in {SitUprightKeypoints, SitTiltedKeypoints, StandKeypoints,
                         UpperBodyKeypoints, HeadOnlyKeypoints}}

(* a baseline calibrated on the upright sitting pose *)
UprightBaseline == Baseline(calculateAngles(Pose(SitUprightKeypoints, 0)))

AnalyzerBaselines == {PersonalBaseline, ZeroBaseline, UprightBaseline}

SetUserBaseline ==
    \E b \in AnalyzerBaselines :
        /\ userBaseline' = b
        /\ UNCHANGED <<appVars, calVars, anaVars, funVars, previousPose,
                       issueDetectionThreshold, metrics>>

AnalyzePose ==
    \E p \in AnalyzerPoses, d \in 0 .. MaxNow :
        /\ metrics' = analyzePose(p, userBaseline, issueDetectionThreshold, d)
        /\ previousPose' = p
        /\ UNCHANGED <<appVars, calVars, anaVars, funVars, userBaseline, issueDetectionThreshold>>

ResetAnalyzer ==
    /\ previousPose' = NULL
    /\ UNCHANGED <<appVars, calVars, anaVars, funVars, userBaseline, issueDetectionThreshold,
                   metrics>>

(* new PostureAnalyzer(config): issueDetectionThreshold is 0.5 unless given *)
InitAnalyzer ==
    /\ Constructed(1)
    /\ AppIdle
    /\ pc = "idle"
    /\ pose = NULL
    /\ angles = NULL
    /\ baseline = NULL
    /\ threshold = 50
    /\ now = 0
    /\ score = NULL
    /\ issues = <<>>
    /\ FunctionIdle
    /\ userBaseline = NULL
    /\ previousPose = NULL
    /\ issueDetectionThreshold \in Thresholds
    /\ metrics = NULL

NextAnalyzer ==
    \/ SetUserBaseline
    \/ AnalyzePose
    \/ ResetAnalyzer

SpecAnalyzer == InitAnalyzer /\ [][NextAnalyzer]_vars

(* C13: the issues of the PostureMetrics analyzePose returns are in the
   prioritizer's order: by severity, and within a severity by type
   priority. *)
C13_AnalyzePoseIssuesArePrioritized ==
    metrics # NULL =>
        \A i, j \in DOMAIN metrics.issues :
            i < j => MayPrecede(metrics.issues[i], metrics.issues[j])

-----------------------------------------------------------------------------
(* Properties of the optimal angles calculatePostureScore scores against *)

PostureTypes == {SITTING, STANDING, EXERCISING, UNKNOWN}

(* the default optimal angles of C14, by posture type *)
DocumentedDefaults(postureType) ==
    CASE postureType = SITTING ->
            [neckAngle |-> 15, shoulderAngle |-> 90, spineAngle |-> 95,
             hipAngle |-> 90, kneeAngle |-> 90]
      [] postureType \in {STANDING, EXERCISING, UNKNOWN} ->
            [neckAngle |-> 0, shoulderAngle |-> 180, spineAngle |-> 180,
             hipAngle |-> 180, kneeAngle |-> 180]

(* C14: calculatePostureScore scores the angles against the baseline's
   optimalAngles whenever a baseline is given (a baseline of zeros
   included), and otherwise against the defaults of the posture type
   detected for the pose: sitting 15 / 90 / 95 / 90 / 90, standing,
   exercising and unknown 0 for the neck and 180 for the others. *)
C14_OptimalAnglesBaselineElseDefaults ==
    /\ \A t \in PostureTypes : getDefaultOptimalAngles(t) = DocumentedDefaults(t)
    /\ pc = "scored" =>
          LET o == IF baseline # NULL THEN baseline.optimalAngles
                   ELSE DocumentedDefaults(detectPostureType(pose))
          IN  /\ score.postureType = detectPostureType(pose)
              /\ score.components =
                    [head |-> calculateHeadScore(angles.neckAngle, o.neckAngle),
                     shoulders |-> calculateShouldersScore(angles.shoulderAngle,
                                                           o.shoulderAngle),
                     spine |-> calculateSpineScore(angles.spineAngle, o.spineAngle),
                     hips |-> calculateHipsScore(angles.hipAngle, o.hipAngle)]

(* a standing pose at the standing defaults scores 100 without a baseline *)
C14_Witness ==
    /\ pc = "scored"
    /\ baseline = NULL
    /\ detectPostureType(pose) = STANDING
    /\ angles = Angles(0, 180, 180, 180)
    /\ score.overall = 100
    /\ score.components.head = 100

-----------------------------------------------------------------------------
(* Properties of calculateSpineScore at the quoted deviations *)

(* the spine deviation of the call *)
SpineDeviation == Abs(angles.spineAngle - OptimalOfCall.spineAngle)

(* C15, as stated: the spine component score is 100 at a deviation of 4
   degrees, 85 at a deviation of 12 degrees and 30 at a deviation of 26
   degrees. *)
C15_SpineScoreAt4At12At26 ==
    pc = "scored" =>
        /\ SpineDeviation = 4 => score.components.spine = 100
        /\ SpineDeviation = 12 => score.components.spine = 85
        /\ SpineDeviation = 26 => score.components.spine = 30

(* C15, amended: the spine component score is 100 at a deviation of 4
   degrees, 70 at a deviation of 12 degrees (12 is over the bound 10 of the
   85 band and within the bound 15 of the 70 band) and 30 at a deviation of
   26 degrees. *)
C15_SpineScoreAt12Is70 ==
    pc = "scored" =>
        /\ SpineDeviation = 4 => score.components.spine = 100
        /\ SpineDeviation = 12 => score.components.spine = 70
        /\ SpineDeviation = 26 => score.components.spine = 30

(* a sitting pose without a baseline, the spine 12 degrees over the optimum *)
C15_Witness ==
    /\ pc = "scored"
    /\ baseline = NULL
    /\ detectPostureType(pose) = SITTING
    /\ angles.spineAngle = 107
    /\ SpineDeviation = 12
    /\ score.components.spine = 70

-----------------------------------------------------------------------------
(* pose-detection utils: extractKeypoints *)

(* constants: KEYPOINT_INDICES, in insertion order *)
KEYPOINT_INDICES ==
    [top |-> 0, neck |-> 1, leftShoulder |-> 2, rightShoulder |-> 3,
     leftElbow |-> 4, rightElbow |-> 5, leftWrist |-> 6, rightWrist |-> 7,
     leftHip |-> 8, rightHip |-> 9, leftKnee |-> 10, rightKnee |-> 11,
     leftAnkle |-> 12, rightAnkle |-> 13]

(* 1 / (1 + exp(-x)) in hundredths, for the activations of the inputs *)
sigmoid(x) ==
    CASE x = -2 -> 12
      [] x = -1 -> 27
      [] x = 0 -> 50
      [] x = 1 -> 73

(* Object.entries(KEYPOINT_INDICES).find(index === k)?.[0] || `keypoint_${k}` *)
keypointName(k) ==
    IF \E n \in DOMAIN KEYPOINT_INDICES : KEYPOINT_INDICES[n] = k
    THEN CHOOSE n \in DOMAIN KEYPOINT_INDICES : KEYPOINT_INDICES[n] = k
    ELSE "keypoint_" \o ToString(k)

(* a heatmap volume is indexed [y][x][k] from 0 *)
HeatmapHeight(heatmaps) == Cardinality(DOMAIN heatmaps)
HeatmapWidth(heatmaps) == Cardinality(DOMAIN heatmaps[0])
HeatmapChannels(heatmaps) == Cardinality(DOMAIN heatmaps[0][0])

(* the two inner loops over channel k, from the i-th cell in scan order
   (y outer, x inner) on, best being maxVal, maxX, maxY so far *)
RECURSIVE ScanChannel(_, _, _, _)
ScanChannel(heatmaps, k, i, best) ==
    IF i = HeatmapHeight(heatmaps) * HeatmapWidth(heatmaps) THEN best
    ELSE LET y == i \div HeatmapWidth(heatmaps)
             x == i % HeatmapWidth(heatmaps)
             val == heatmaps[y][x][k]
         IN  ScanChannel(heatmaps, k, i + 1,
                 IF val > best.maxVal
                 THEN [maxVal |-> val, maxX |-> x, maxY |-> y]
                 ELSE best)

(* the keypoint of channel k - 1 is element k of the returned array *)
extractKeypoints(heatmaps) ==
    [k \in 1 .. HeatmapChannels(heatmaps) |->
        LET best == ScanChannel(heatmaps, k - 1, 0,
                                [maxVal |-> -1, maxX |-> -1, maxY |-> -1])
        IN  [x |-> Frac(best.maxX, HeatmapWidth(heatmaps)),
             y |-> Frac(best.maxY, HeatmapHeight(heatmaps)),
             score |-> sigmoid(best.maxVal),
             name |-> keypointName(k - 1)]]

(* raw activations: below, at and above the initial maxVal of the scan *)
Activations == -2 .. 0

(* height and width of the input heatmaps *)
HeatmapShapes == {<<1, 1>>, <<2, 3>>}

(* the channel counts of the input heatmaps: the schema's, one less, one
   more, and the three of the detector's unit test *)
ChannelCounts == {3, 13, 14, 15}

(* the other channels are peaked, flat, peaked below -1 or flat below -1 *)
OtherChannels == {<<1, 0>>, <<0, 0>>, <<-1, -2>>, <<-2, -2>>}

(* a volume of h rows, w columns and n channels: channel 0 carries the
   activations first (by cell, in scan order), channel k > 0 carries
   other[1] at cell k mod (h * w) and other[2] elsewhere *)
Heatmap(h, w, n, first, other) ==
    [y \in 0 .. h - 1 |-> [x \in 0 .. w - 1 |-> [k \in 0 .. n - 1 |->
        IF k = 0 THEN first[y * w + x]
        ELSE IF y * w + x = k % (h * w) THEN other[1] ELSE other[2]]]]

ExtractKeypoints ==
    /\ pc = "extract"
    /\ output' = extractKeypoints(input.heatmaps)
    /\ pc' = "extracted"
    /\ UNCHANGED <<appVars, calVars, analyzerVars, pose, angles, baseline, threshold, now,
                   score, issues, input>>

InitExtract ==
    /\ Constructed(1)
    /\ AppIdle
    /\ pc = "extract"
    /\ pose = NULL
    /\ angles = NULL
    /\ baseline = NULL
    /\ threshold = 50
    /\ now = 0
    /\ score = NULL
    /\ issues = <<>>
    /\ \E s \in HeatmapShapes, n \in ChannelCounts, other \in OtherChannels :
          \E first \in [0 .. s[1] * s[2] - 1 -> Activations] :
              input = [heatmaps |-> Heatmap(s[1], s[2], n, first, other)]
    /\ output = NULL
    /\ AnalyzerIdle

NextExtract == ExtractKeypoints

SpecExtract == InitExtract /\ [][NextExtract]_vars

(* the joints of the schema, in canonical order *)
CanonicalNames ==
    <<"top", "neck", "leftShoulder", "rightShoulder", "leftElbow", "rightElbow",
      "leftWrist", "rightWrist", "leftHip", "rightHip", "leftKnee", "rightKnee",
      "leftAnkle", "rightAnkle">>

(* C16: a heatmap is decoded only when it has the 14 channels of the
   schema (any other count is rejected), so a keypoint list returned by
   extractKeypoints has exactly 14 keypoints, one per joint of the schema
   in canonical order. *)
C16_OnlyFourteenChannelsDecoded ==
    pc = "extracted" =>
        /\ HeatmapChannels(input.heatmaps) = 14
        /\ Len(output) = 14
        /\ \A k \in DOMAIN output : output[k].name = CanonicalNames[k]

(* the activation of cell i (in scan order) of channel k *)
ActivationAt(heatmaps, k, i) ==
    heatmaps[i \div HeatmapWidth(heatmaps)][i % HeatmapWidth(heatmaps)][k]

(* the first cell in scan order that attains the maximum of channel k *)
FirstMaximalCell(heatmaps, k) ==
    LET cells == 0 .. HeatmapHeight(heatmaps) * HeatmapWidth(heatmaps) - 1
    IN  CHOOSE i \in cells :
            /\ \A j \in cells : ActivationAt(heatmaps, k, j) <= ActivationAt(heatmaps, k, i)
            /\ \A j \in cells : j < i =>
                  ActivationAt(heatmaps, k, j) < ActivationAt(heatmaps, k, i)

(* C17: for every channel, flat channels and channels of negative
   activations included, the keypoint is at the first cell in scan order
   (y outer, x inner) that attains the channel maximum: x = x* / width and
   y = y* / height, both in [0, 1]. *)
C17_FirstMaximalCellOfEveryChannel ==
    pc = "extracted" =>
        \A k \in DOMAIN output :
            LET heatmaps == input.heatmaps
                i == FirstMaximalCell(heatmaps, k - 1)
            IN  /\ output[k].x = Frac(i % HeatmapWidth(heatmaps), HeatmapWidth(heatmaps))
                /\ output[k].y = Frac(i \div HeatmapWidth(heatmaps),
                                      HeatmapHeight(heatmaps))
                /\ 0 <= output[k].x.num /\ output[k].x.num <= output[k].x.den
                /\ 0 <= output[k].y.num /\ output[k].y.num <= output[k].y.den

-----------------------------------------------------------------------------
(* pose-detection utils: smoothKeypoints.  The smoothing factor is in
   tenths (0.7 is 7); the coordinates of the input keypoints are multiples
   of 0.1, so that a smoothed coordinate is a whole number of hundredths. *)

(* faulty variant: the weights of current and previous are exchanged *)
smoothKeypointsSwapped(currentKeypoints, previousKeypoints, smoothingFactor) ==
    IF previousKeypoints = NULL THEN currentKeypoints
    ELSE [index \in DOMAIN currentKeypoints |->
            LET current == currentKeypoints[index]
            IN  IF index \notin DOMAIN previousKeypoints THEN current
                ELSE LET previous == previousKeypoints[index]
                     IN  [current EXCEPT
                            !.x = (previous.x * smoothingFactor
                                   + current.x * (10 - smoothingFactor)) \div 10,
                            !.y = (previous.y * smoothingFactor
                                   + current.y * (10 - smoothingFactor)) \div 10]]

smoothKeypoints(currentKeypoints, previousKeypoints, smoothingFactor) ==
    IF previousKeypoints = NULL THEN currentKeypoints
    ELSE [index \in DOMAIN currentKeypoints |->
            LET current == currentKeypoints[index]
            IN  IF index \notin DOMAIN previousKeypoints THEN current
                ELSE LET previous == previousKeypoints[index]
                     IN  [current EXCEPT
                            !.x = (current.x * smoothingFactor
                                   + previous.x * (10 - smoothingFactor)) \div 10,
                            !.y = (current.y * smoothingFactor
                                   + previous.y * (10 - smoothingFactor)) \div 10]]

(* keypoints detected with confidence s *)
WithScore(keypoints, s) == [i \in DOMAIN keypoints |-> [keypoints[i] EXCEPT !.score = s]]

CurrentKeypoints ==
    {SitUprightKeypoints, SitTiltedKeypoints, StandKeypoints, UpperBodyKeypoints,
     HeadOnlyKeypoints}

(* the keypoints of the frame before, detected with another confidence *)
PreviousKeypoints == {WithScore(k, 50) : k \in CurrentKeypoints}

SmoothingFactors == {0, 3, 5, 7, 10}

SmoothKeypoints ==
    /\ pc = "smooth"
    /\ output' = smoothKeypoints(input.currentKeypoints, input.previousKeypoints,
                                 input.smoothingFactor)
    /\ pc' = "smoothed"
    /\ UNCHANGED <<appVars, calVars, analyzerVars, pose, angles, baseline, threshold, now,
                   score, issues, input>>

InitSmooth ==
    /\ Constructed(1)
    /\ AppIdle
    /\ pc = "smooth"
    /\ pose = NULL
    /\ angles = NULL
    /\ baseline = NULL
    /\ threshold = 50
    /\ now = 0
    /\ score = NULL
    /\ issues = <<>>
    /\ \E c \in CurrentKeypoints, f \in SmoothingFactors :
          \/ input = [currentKeypoints |-> c, previousKeypoints |-> NULL,
                      smoothingFactor |-> f]
          \/ \E p \in PreviousKeypoints :
                input = [currentKeypoints |-> c, previousKeypoints |-> p,
                         smoothingFactor |-> f]
    /\ output = NULL
    /\ AnalyzerIdle

NextSmooth == SmoothKeypoints

SpecSmooth == InitSmooth /\ [][NextSmooth]_vars

(* C18: smoothKeypoints returns the current keypoints unchanged when there
   is no previous pose, whatever the factor, and when the factor is 1.0;
   with a previous pose, every keypoint that has a previous keypoint at its
   index gets x and y equal to current * factor + previous * (1 - factor)
   and keeps the score and the name of the current keypoint. *)
C18_SmoothingBlendsPositionsOnly ==
    pc = "smoothed" =>
        LET current == input.currentKeypoints
            previous == input.previousKeypoints
            f == input.smoothingFactor
        IN  /\ previous = NULL => output = current
            /\ f = 10 => output = current
            /\ previous # NULL =>
                  /\ Len(output) = Len(current)
                  /\ \A i \in DOMAIN current :
                        i \in DOMAIN previous =>
                            /\ 10 * output[i].x = current[i].x * f + previous[i].x * (10 - f)
                            /\ 10 * output[i].y = current[i].y * f + previous[i].y * (10 - f)
                            /\ output[i].score = current[i].score
                            /\ output[i].name = current[i].name

(* the head moved from x = 0.5 to x = 0.3: at factor 0.7 it is put at 0.36
   and keeps the confidence of the current detection *)
C18_Witness ==
    /\ pc = "smoothed"
    /\ input.smoothingFactor = 7
    /\ input.currentKeypoints = SitTiltedKeypoints
    /\ input.previousKeypoints = WithScore(SitUprightKeypoints, 50)
    /\ output[1].x = 36
    /\ output[1].score = 90
    /\ output[1].name = "top"

-----------------------------------------------------------------------------
(* pose-detection utils: calculateAngle on its own *)

(* the eight directions whose atan2 is exact, and no displacement at all *)
Directions ==
    {<<0, 0>>, <<1, 0>>, <<1, 1>>, <<0, 1>>, <<-1, 1>>, <<-1, 0>>, <<-1, -1>>,
     <<0, -1>>, <<1, -1>>}

(* the vertex of the angle *)
Vertices == {Keypoint("p2", 50, 50), Keypoint("p2", 30, 70)}

(* the points at one or two grid steps from vertex v *)
PointsAround(v, name) ==
    {Keypoint(name, v.x + steps * d[1], v.y + steps * d[2]) :
        d \in Directions, steps \in {10, 20}}

CalculateAngle ==
    /\ pc = "angle"
    /\ output' = calculateAngle(input.p1, input.p2, input.p3)
    /\ pc' = "angled"
    /\ UNCHANGED <<appVars, calVars, analyzerVars, pose, angles, baseline, threshold, now,
                   score, issues, input>>

InitAngle ==
    /\ Constructed(1)
    /\ AppIdle
    /\ pc = "angle"
    /\ pose = NULL
    /\ angles = NULL
    /\ baseline = NULL
    /\ threshold = 50
    /\ now = 0
    /\ score = NULL
    /\ issues = <<>>
    /\ \E v \in Vertices :
          \E a \in PointsAround(v, "p1"), b \in PointsAround(v, "p3") :
              input = [p1 |-> a, p2 |-> v, p3 |-> b]
    /\ output = NULL
    /\ AnalyzerIdle

NextAngle == CalculateAngle

SpecAngle == InitAngle /\ [][NextAngle]_vars

(* C19: calculateAngle(p1, p2, p3) equals calculateAngle(p3, p2, p1) and
   lies in [0, 180]: it is the absolute difference of the directions of p1
   and p3 seen from p2, replaced by 360 minus itself when over 180. *)
C19_AngleSymmetricWithin180 ==
    pc = "angled" =>
        LET difference ==
                Abs(Atan2Deg(input.p1.y - input.p2.y, input.p1.x - input.p2.x)
                    - Atan2Deg(input.p3.y - input.p2.y, input.p3.x - input.p2.x))
        IN  /\ output = calculateAngle(input.p3, input.p2, input.p1)
            /\ 0 <= output /\ output <= 180
            /\ difference > 180 => output = 360 - difference
            /\ difference <= 180 => output = difference

(* p1 at 135 degrees and p3 at -135 degrees: the difference 270 is folded
   to 90 *)
C19_Witness ==
    /\ pc = "angled"
    /\ input.p2 = Keypoint("p2", 50, 50)
    /\ input.p1 = Keypoint("p1", 40, 60)
    /\ input.p3 = Keypoint("p3", 40, 40)
    /\ output = 90

-----------------------------------------------------------------------------
(* utils.ts: calculateAngles on poses with missing keypoints *)

(* the left arm is raised across the chest: seen from the left shoulder,
   the elbow lies in the direction of the neck *)
ArmRaisedKeypoints == Moved(SitUprightKeypoints, "leftElbow", 60, 20)

(* the keypoints calculateAngles looks up *)
AngleKeypointNames ==
    {"top", "neck", "leftShoulder", "rightShoulder", "leftElbow", "leftHip",
     "rightHip", "leftKnee", "leftAnkle"}

(* the keypoints whose name is in names, in their order *)
Only(keypoints, names) == SelectSeq(keypoints, LAMBDA kp : kp.name \in names)

(* every pose got from a full pose by losing some of the keypoints *)
AnglePoseKeypoints ==
    {SitUprightKeypoints, SitTiltedKeypoints, StandKeypoints, ArmRaisedKeypoints}

CalculateAngles ==
    /\ pc = "measure"
    /\ output' = calculateAngles(input.pose)
    /\ pc' = "measured"
    /\ UNCHANGED <<appVars, calVars, analyzerVars, pose, angles, baseline, threshold, now,
                   score, issues, input>>

InitAngles ==
    /\ Constructed(1)
    /\ AppIdle
    /\ pc = "measure"
    /\ pose = NULL
    /\ angles = NULL
    /\ baseline = NULL
    /\ threshold = 50
    /\ now = 0
    /\ score = NULL
    /\ issues = <<>>
    /\ \E k \in AnglePoseKeypoints, missing \in SUBSET AngleKeypointNames :
          input = [pose |-> Pose(SelectSeq(k, LAMBDA kp : kp.name \notin missing), 0)]
    /\ output = NULL
    /\ AnalyzerIdle

NextAngles == CalculateAngles

SpecAngles == InitAngles /\ [][NextAngles]_vars

(* the keypoints an angle requires *)
RequiredBy(angle) ==
    CASE angle = "neckAngle" -> {"top", "neck", "leftShoulder", "rightShoulder"}
      [] angle = "shoulderAngle" -> {"neck", "leftShoulder", "leftElbow"}
      [] angle = "spineAngle" -> {"neck", "leftHip", "rightHip"}
      [] angle = "hipAngle" -> {"leftShoulder", "leftHip", "leftKnee"}
      [] angle = "kneeAngle" -> {"leftHip", "leftKnee", "leftAnkle"}

(* the names of the keypoints of the pose of the call *)
PresentNames == {input.pose.keypoints[i].name : i \in DOMAIN input.pose.keypoints}

(* the angle as computed on the pose reduced to the keypoints it requires *)
FromOwnKeypoints(angle) ==
    calculateAngles(Pose(Only(input.pose.keypoints, RequiredBy(angle)), 0))[angle]

(* C20, as stated: each of the five angles is 0 exactly when at least one
   keypoint it requires is absent, and is otherwise computed from its own
   keypoints, whatever other keypoints are present. *)
C20_ZeroExactlyWhenKeypointAbsent ==
    pc = "measured" =>
        \A angle \in AngleNames :
            /\ output[angle] = 0 <=> ~(RequiredBy(angle) \subseteq PresentNames)
            /\ output[angle] = FromOwnKeypoints(angle)

(* C20, amended: each of the five angles is 0 whenever at least one
   keypoint it requires is absent, and is otherwise computed from its own
   keypoints (which may give 0 as well), whatever other keypoints are
   present. *)
C20_ZeroWhenKeypointAbsent ==
    pc = "measured" =>
        \A angle \in AngleNames :
            /\ ~(RequiredBy(angle) \subseteq PresentNames) => output[angle] = 0
            /\ output[angle] = FromOwnKeypoints(angle)
            /\ RequiredBy(angle) \subseteq PresentNames =>
                  \E k \in AnglePoseKeypoints :
                      /\ Only(k, RequiredBy(angle))
                            = Only(input.pose.keypoints, RequiredBy(angle))
                      /\ output[angle] = calculateAngles(Pose(k, 0))[angle]

(* the hips are lost: the spine, hip and knee angles are 0, the neck and the
   shoulder angle are those of the full pose *)
C20_Witness ==
    /\ pc = "measured"
    /\ PresentNames \cap AngleKeypointNames
          = AngleKeypointNames \ {"leftHip", "rightHip"}
    /\ output = [neckAngle |-> 135, shoulderAngle |-> 90, spineAngle |-> 0,
                 hipAngle |-> 0, kneeAngle |-> 0]

-----------------------------------------------------------------------------
(* utils.ts: detectPostureType on its own *)

(* the keypoints detectPostureType looks up *)
TypeKeypointNames == {"leftHip", "rightHip", "leftKnee", "rightKnee", "neck"}

(* hips and knees at the given heights; every sum of two heights is even,
   so that the averages are whole hundredths *)
HipKneeKeypoints(leftHipY, rightHipY, leftKneeY, rightKneeY) ==
    Moved(Moved(Moved(Moved(SitUprightKeypoints,
        "leftHip", 40, leftHipY), "rightHip", 60, rightHipY),
        "leftKnee", 20, leftKneeY), "rightKnee", 80, rightKneeY)

HipHeights == {68, 70, 72}

(* knees about 0.2 above the hips, level with them, and about 0.2 below *)
KneeHeights == {48, 50, 52, 70, 88, 90, 92}

DetectPostureType ==
    /\ pc = "classify"
    /\ output' = detectPostureType(input.pose)
    /\ pc' = "classified"
    /\ UNCHANGED <<appVars, calVars, analyzerVars, pose, angles, baseline, threshold, now,
                   score, issues, input>>

InitType ==
    /\ Constructed(1)
    /\ AppIdle
    /\ pc = "classify"
    /\ pose = NULL
    /\ angles = NULL
    /\ baseline = NULL
    /\ threshold = 50
    /\ now = 0
    /\ score = NULL
    /\ issues = <<>>
    /\ \E lh \in HipHeights, rh \in HipHeights, lk \in KneeHeights, rk \in KneeHeights,
          missing \in SUBSET TypeKeypointNames :
          input = [pose |-> Pose(SelectSeq(HipKneeKeypoints(lh, rh, lk, rk),
                                           LAMBDA kp : kp.name \notin missing), 0)]
    /\ output = NULL
    /\ AnalyzerIdle

SpecType == InitType /\ [][DetectPostureType]_vars

(* the y of the named keypoint of the pose of the call *)
HeightOf(name) ==
    LET i == CHOOSE i \in DOMAIN input.pose.keypoints :
                 input.pose.keypoints[i].name = name
    IN  input.pose.keypoints[i].y

(* C21: detectPostureType returns UNKNOWN iff one of left hip, right hip,
   left knee, right knee, neck is missing; otherwise SITTING iff
   |avgHipY - avgKneeY| < 0.2 (twice the difference of the averages is the
   difference of the sums) and STANDING in every other case; it never
   returns EXERCISING. *)
C21_PostureTypeByHipKneeDistance ==
    pc = "classified" =>
        LET complete == TypeKeypointNames \subseteq PresentNames
        IN  /\ output = UNKNOWN <=> ~complete
            /\ complete =>
                  LET twiceDistance ==
                          Abs((HeightOf("leftHip") + HeightOf("rightHip"))
                              - (HeightOf("leftKnee") + HeightOf("rightKnee")))
                  IN  /\ output = SITTING <=> twiceDistance < 40
                      /\ output = STANDING <=> twiceDistance >= 40
            /\ output # EXERCISING

(* the knees are exactly 0.2 above the hips: standing, not sitting *)
C21_Witness ==
    /\ pc = "classified"
    /\ TypeKeypointNames \subseteq PresentNames
    /\ HeightOf("leftHip") = 68 /\ HeightOf("rightHip") = 72
    /\ HeightOf("leftKnee") = 48 /\ HeightOf("rightKnee") = 52
    /\ output = STANDING

-----------------------------------------------------------------------------
(* calibration.ts: updateBaseline, called beside a CalibrationManager *)

(* the new poses handed to updateBaseline *)
NewPoseLists ==
    {<<>>, <<Pose(SitTiltedKeypoints, 0)>>,
     <<Pose(SitTiltedKeypoints, 0), Pose(StandKeypoints, 1)>>}

(* weights in tenths; 1 is the default 0.1 *)
Weights == {1, 10}

(* one call, made at any moment of the calibration *)
UpdateBaseline ==
    \E b \in {PersonalBaseline, UprightBaseline}, newPoses \in NewPoseLists,
       weight \in Weights :
        /\ input = NULL
        /\ input' = [baseline |-> b, newPoses |-> newPoses, weight |-> weight]
        /\ output' = updateBaseline(b, newPoses, weight, now)
        /\ UNCHANGED <<appVars, calVars, analyzerVars, anaVars>>

(* a manager with minSamples 1, beside which updateBaseline is called *)
InitUpdate ==
    /\ Constructed(1)
    /\ AppIdle
    /\ AnalysisIdle

NextUpdate ==
    \/ AddSample
    \/ Reset
    \/ UpdateBaseline

SpecUpdate == InitUpdate /\ [][NextUpdate]_vars

(* C22: updateBaseline(baseline, newPoses, weight) returns a baseline whose
   five optimal angles are existing * (1 - weight) + mean * weight, the mean
   taken over newPoses (over no poses: the 0 the average starts from), with
   userId, postureType, samples and createdAt those of the argument; the
   call changes nothing of the CalibrationManager, whether its calibration
   is complete or not. *)
C22_UpdateBaselineBlendsAngles ==
    [][(input' # input \/ output' # output) =>
          LET b == input'.baseline
              n == Len(input'.newPoses)
              sum(f) == SeqSum([i \in 1 .. n |-> calculateAngles(input'.newPoses[i])[f]])
          IN  /\ \A f \in AngleNames :
                    /\ n > 0 =>
                          output'.optimalAngles[f].num * 10 * n
                             = (b.optimalAngles[f] * (10 - input'.weight) * n
                                + sum(f) * input'.weight) * output'.optimalAngles[f].den
                    /\ n = 0 =>
                          output'.optimalAngles[f].num * 10
                             = b.optimalAngles[f] * (10 - input'.weight)
                               * output'.optimalAngles[f].den
              /\ output'.userId = b.userId
              /\ output'.postureType = b.postureType
              /\ output'.samples = b.samples
              /\ output'.createdAt = b.createdAt
              /\ output'.updatedAt = now
              /\ calVars' = calVars
    ]_vars

(* a baseline with neck 30 updated at weight 0.1 with two poses of neck 135
   and 180 has neck 30 * 0.9 + 157.5 * 0.1 = 42.75, here while the
   calibration is complete *)
C22_Witness ==
    /\ isCalibrationComplete(calibrationSamples, minSamples)
    /\ input # NULL
    /\ input.baseline = PersonalBaseline
    /\ input.weight = 1
    /\ Len(input.newPoses) = 2
    /\ output.optimalAngles.neckAngle = Frac(855, 20)
    /\ output.userId = "u1"


(***************************************************************************)
(* C23: reset() puts the manager back in its initial collecting state.     *)
(* `added` holds the poses passed to addSample since the construction or   *)
(* the last reset.  While it is empty the window is empty, getSamples()    *)
(* returns an empty list and getProgress() returns 0; while it holds fewer *)
(* than minSamples poses isCalibrationComplete() is false and              *)
(* createBaseline returns null, both as functions of the fields and as the *)
(* values the calls returned.                                              *)
(***************************************************************************)
C23_ResetReturnsToCollecting ==
    /\ op = "reset" => added = <<>>
    /\ added = <<>> =>
          /\ calibrationSamples = <<>>
          /\ getSamples(calibrationSamples) = <<>>
          /\ getProgress(calibrationSamples, minSamples) = Frac(0, minSamples)
          /\ op = "getSamples" => ret = [samples |-> <<>>]
          /\ op = "getProgress" => ret.number.num = 0 /\ ret.number.den > 0
    /\ Len(added) < minSamples =>
          /\ ~isCalibrationComplete(calibrationSamples, minSamples)
          /\ \A userId \in UserIds :
                createBaseline(calibrationSamples, minSamples, userId, clock) = NULL
          /\ op \in {"addSample", "isCalibrationComplete"} => ret = [bool |-> FALSE]
          /\ op = "createBaseline" => ret = NULL

(* a reset made on a complete calibration (the window was full, the oldest
   sample evicted), after which createBaseline has returned null *)
C23_Witness ==
    /\ clock > maxSamples
    /\ added = <<>>
    /\ calibrationSamples = <<>>
    /\ op = "createBaseline"
    /\ ret = NULL


-----------------------------------------------------------------------------
(* Properties of the identifiers of the issues *)

(* the ids of a list of issues *)
IdsOf(list) == {list[i].id : i \in DOMAIN list}

(* C24: no two issues share an id, whether one detectPostureIssues call
   produced both or two calls did, the two calls being made at the same
   clock reading included: the issues analyzePose returns have pairwise
   different ids, none of which is an id of the issues the call before it
   returned. *)
C24_IssueIdsAreUnique ==
    [][AnalyzePose =>
          /\ \A i, j \in DOMAIN metrics'.issues :
                metrics'.issues[i].id = metrics'.issues[j].id => i = j
          /\ metrics # NULL => IdsOf(metrics.issues) \cap IdsOf(metrics'.issues) = {}]_vars

(* the issues of one call have pairwise different ids *)
C24_IdsDifferWithinOneCall ==
    metrics # NULL =>
        \A i, j \in DOMAIN metrics.issues :
            metrics.issues[i].id = metrics.issues[j].id => i = j


-----------------------------------------------------------------------------
(* PoseDetector: the life cycle of the model *)

(* the number of models loaded in one behaviour *)
MaxLoads == 3

ModelNotInitialized == "Model not initialized. Call initialize() first."
FailedToInitialize == "Failed to initialize pose detector"

Resolved == [resolved |-> TRUE]

(* the n-th model tf.loadGraphModel returned *)
GraphModel(n) == [handle |-> n]

isInitialized(m) == m # NULL

(* the step at which initialize() fails, or "none" *)
InitializeFailures == {"none", "setBackend", "loadGraphModel", "warmupModel"}

(* initialize(): the model field is assigned as soon as loadGraphModel has
   resolved, before the warm-up; the catch block rethrows and clears
   nothing.  A model held before is replaced, not disposed. *)
Initialize ==
    /\ loaded < MaxLoads
    /\ \E failure \in InitializeFailures :
          /\ IF failure \in {"setBackend", "loadGraphModel"}
             THEN UNCHANGED <<model, loaded>>
             ELSE /\ loaded' = loaded + 1
                  /\ model' = GraphModel(loaded + 1)
          /\ result' = IF failure = "none" THEN Resolved ELSE Thrown(FailedToInitialize)
          /\ everInitialized' = (everInitialized \/ failure = "none")
    /\ call' = "initialize"
    /\ UNCHANGED <<calVars, anaVars, funVars, analyzerVars, bannerVars, cameraVars, disposed>>

(* what detectPose produces on a loaded model: a pose, or null on a low
   score or on an error caught inside *)
DetectedPoses == {NULL, Pose(SitUprightKeypoints, 0)}

DetectPose ==
    /\ IF ~isInitialized(model)
       THEN result' = Thrown(ModelNotInitialized)
       ELSE \E p \in DetectedPoses : result' = [pose |-> p]
    /\ call' = "detectPose"
    /\ UNCHANGED <<calVars, anaVars, funVars, analyzerVars, bannerVars, cameraVars, model, loaded, disposed,
                   everInitialized>>

Dispose ==
    /\ IF model # NULL
       THEN /\ disposed' = disposed \cup {model}
            /\ model' = NULL
       ELSE UNCHANGED <<model, disposed>>
    /\ call' = "dispose"
    /\ result' = Resolved
    /\ UNCHANGED <<calVars, anaVars, funVars, analyzerVars, bannerVars, cameraVars, loaded, everInitialized>>

IsInitialized ==
    /\ call' = "isInitialized"
    /\ result' = [bool |-> isInitialized(model)]
    /\ UNCHANGED <<calVars, anaVars, funVars, analyzerVars, bannerVars, cameraVars, model, loaded, disposed,
                   everInitialized>>

(* new PoseDetector(config), its calls made one after the other *)
InitDetector ==
    /\ Constructed(1)
    /\ AnalysisIdle
    /\ AppIdle

SpecDetector == InitDetector /\ [][Initialize \/ DetectPose \/ Dispose \/ IsInitialized]_vars

(* C25: detectPose rejects with 'Model not initialized' whenever no model
   is loaded, that is before the first initialize() that resolved and after
   any dispose(); after dispose() the model that was loaded has been
   disposed and isInitialized() is false; dispose() on a detector without a
   model changes nothing. *)
C25_RejectsUnlessInitialized ==
    [][/\ (call' = "detectPose" /\ (~isInitialized(model) \/ ~everInitialized))
              => result' = Thrown(ModelNotInitialized)
       /\ call' = "dispose" =>
              /\ ~isInitialized(model')
              /\ isInitialized(model) => model \in disposed'
              /\ ~isInitialized(model) => UNCHANGED <<model, loaded, disposed, everInitialized>>
       /\ (call' = "isInitialized" /\ call = "dispose") => result' = [bool |-> FALSE]]_vars

(* the part of C25 that rests on the model field alone *)
C25_RejectsWhileModelIsNull ==
    [][/\ (call' = "detectPose" /\ ~isInitialized(model))
              => result' = Thrown(ModelNotInitialized)
       /\ call' = "dispose" =>
              /\ ~isInitialized(model')
              /\ isInitialized(model) => model \in disposed'
              /\ ~isInitialized(model) => UNCHANGED <<model, loaded, disposed, everInitialized>>
       /\ (call' = "isInitialized" /\ call = "dispose") => result' = [bool |-> FALSE]]_vars

(* C30: on a detector without a model, an initialize() that rejects at any
   step leaves the detector uninitialized: isInitialized() is false and
   detectPose rejects with 'Model not initialized'. *)
C30_FailedInitializeLeavesNoModel ==
    [][/\ (call' = "initialize" /\ ~isInitialized(model) /\ result' # Resolved)
              => ~isInitialized(model')
       /\ (call' = "detectPose" /\ call = "initialize" /\ result # Resolved
              /\ disposed = {} /\ ~everInitialized)
              => result' = Thrown(ModelNotInitialized)]_vars


-----------------------------------------------------------------------------
(* AlertBanner: the auto-hide timer *)

(* the lists handed to the banner as its issues prop *)
BannerLists ==
    {<<>>,
     <<Issue(FORWARD_HEAD, MILD, 1)>>,
     <<Issue(UNEVEN_SHOULDERS, MODERATE, 1)>>,
     <<Issue(FORWARD_HEAD, MILD, 1), Issue(UNEVEN_HIPS, MODERATE, 1)>>,
     <<Issue(SLOUCHING, SEVERE, 1)>>,
     <<Issue(FORWARD_HEAD, MILD, 2), Issue(SLOUCHING, SEVERE, 1)>>}

AutoHideDurations == {0, DefaultAutoHideDuration}

(* issues.filter(issue => issue.severity !== SEVERE).length === issues.length *)
NoSevere(list) == \A i \in DOMAIN list : list[i].severity # SEVERE

(* visibleIssues.reduce(...): the first of the issues of the highest severity *)
mostSevereIssue(list) ==
    LET rank(i) == severityOrder(list[i].severity)
        first == CHOOSE i \in DOMAIN list :
                     /\ \A j \in DOMAIN list : rank(i) <= rank(j)
                     /\ \A j \in 1 .. i - 1 : rank(j) > rank(i)
    IN  list[first]

(* a render with another issues prop: the clean-up of the effect that ran
   before clears its timeout, then the effect runs on the new list *)
ReceiveIssues ==
    /\ \E list \in BannerLists :
          /\ bannerIssues' = list
          /\ IF Len(list) > 0
             THEN /\ visibleIssues' = list
                  /\ timer' = (NoSevere(list) /\ autoHideDuration > 0)
             ELSE /\ visibleIssues' = visibleIssues
                  /\ timer' = FALSE
    /\ UNCHANGED <<calVars, anaVars, funVars, analyzerVars, detectorVars, cameraVars,
                   autoHideDuration, closing>>

(* the timeout runs handleDismissAll, which starts the slide-out animation *)
TimerFires ==
    /\ timer
    /\ timer' = FALSE
    /\ closing' = closing \cup {"timer"}
    /\ UNCHANGED <<calVars, anaVars, funVars, analyzerVars, detectorVars, cameraVars,
                   bannerIssues, autoHideDuration, visibleIssues>>

(* the callback of a slide-out animation: setVisibleIssues([]) *)
AnimationEnds ==
    /\ \E who \in closing : closing' = closing \ {who}
    /\ visibleIssues' = <<>>
    /\ UNCHANGED <<calVars, anaVars, funVars, analyzerVars, detectorVars, cameraVars,
                   bannerIssues, autoHideDuration, timer>>

(* the dismiss button: handleDismissIssue(mostSevereIssue.id) *)
HandleDismissIssue ==
    /\ visibleIssues # <<>>
    /\ LET issueId == mostSevereIssue(visibleIssues).id
           remaining == SelectSeq(visibleIssues, LAMBDA issue : issue.id # issueId)
       IN  IF Len(remaining) = 0
           THEN /\ closing' = closing \cup {"user"}
                /\ visibleIssues' = visibleIssues
           ELSE /\ visibleIssues' = remaining
                /\ closing' = closing
    /\ UNCHANGED <<calVars, anaVars, funVars, analyzerVars, detectorVars, cameraVars,
                   bannerIssues, autoHideDuration, timer>>

(* the banner mounted with an empty issues prop *)
InitBanner ==
    /\ Constructed(1)
    /\ AnalysisIdle
    /\ DetectorIdle
    /\ CameraIdle
    /\ bannerIssues = <<>>
    /\ autoHideDuration \in AutoHideDurations
    /\ visibleIssues = <<>>
    /\ timer = FALSE
    /\ closing = {}

SpecBanner ==
    InitBanner /\ [][ReceiveIssues \/ TimerFires \/ AnimationEnds \/ HandleDismissIssue]_vars

(* C26: a banner showing, as received, issues none of which is severe, with
   autoHideDuration > 0, gets hidden without user action, also after the
   issues prop has changed to another such list or to an empty one: as
   nothing but the timeout hides it, its timeout is pending or its slide-out
   is running.  A banner whose issues include a severe one is never hidden
   by the timeout. *)
C26_NonSevereBannerIsAutoHidden ==
    [][/\ (/\ visibleIssues' # <<>>
           /\ visibleIssues' \in BannerLists
           /\ NoSevere(visibleIssues')
           /\ autoHideDuration' > 0)
              => (timer' \/ closing' # {})
       /\ (/\ visibleIssues # <<>>
           /\ visibleIssues' = <<>>
           /\ closing = {"timer"})
              => NoSevere(visibleIssues)]_vars

(* C26 while the issues prop does not become empty or severe after a timeout
   was set up: the timeout of a non-severe banner is pending or has fired *)
C26_TimerSetForNonSevereIssues ==
    [][(ReceiveIssues /\ bannerIssues' # <<>> /\ NoSevere(bannerIssues')
            /\ autoHideDuration > 0)
          => (timer' /\ visibleIssues' = bannerIssues')]_vars


-----------------------------------------------------------------------------
(* PoseEstimationCamera: the frame loop *)

(* the number of tensors pulled from the stream, and of loops started *)
MaxFrames == 4
MaxLoops == 2

(* the last reading of Date.now() *)
MaxCameraClock == 200

(* the time that passes between two steps, in ms: less or more than the
   inference interval *)
Elapsed == {20, 60}

Scheduled == [pc |-> "scheduled", frame |-> 0, now |-> 0]

(* onReady: handleCameraStream defines a loop over the stream and calls it;
   the loop's passes, the first one included, are the LoopPass steps.  The
   camera is rendered only once the model is set, so `model` is non-null in
   the loop. *)
HandleCameraStream ==
    /\ Len(loops) < MaxLoops
    /\ loops' = Append(loops, Scheduled)
    /\ UNCHANGED <<calVars, anaVars, funVars, analyzerVars, detectorVars, bannerVars,
                   frames, isProcessing, lastInferenceTime, cameraClock>>

(* one pass of a loop up to its await or to its end: the tensor is pulled;
   unless an inference is in progress it is handed to the model when the
   interval has passed and disposed at once when not; the pass ends with
   requestAnimationFrame(loop) *)
LoopPass ==
    /\ Len(frames) < MaxFrames
    /\ \E l \in DOMAIN loops :
          /\ loops[l].pc = "scheduled"
          /\ LET nextImageTensor == Len(frames) + 1
             IN  IF ~isProcessing
                 THEN IF cameraClock - lastInferenceTime > INFERENCE_INTERVAL
                      THEN /\ isProcessing' = TRUE
                           /\ frames' = Append(frames, 0)
                           /\ loops' = [loops EXCEPT ![l] =
                                           [pc |-> "predicting",
                                            frame |-> nextImageTensor,
                                            now |-> cameraClock]]
                      ELSE /\ frames' = Append(frames, 1)
                           /\ UNCHANGED <<isProcessing, loops>>
                 ELSE /\ frames' = Append(frames, 0)
                      /\ UNCHANGED <<isProcessing, loops>>
    /\ UNCHANGED <<calVars, anaVars, funVars, analyzerVars, detectorVars, bannerVars,
                   lastInferenceTime, cameraClock>>

(* model.predict settles: on success the pose is reported and the time of
   the pass recorded, on failure the error is reported; then isProcessing is
   cleared, the tensor disposed and the next pass requested *)
PredictSettles ==
    /\ \E l \in DOMAIN loops :
          /\ loops[l].pc = "predicting"
          /\ \E resolved \in BOOLEAN :
                lastInferenceTime' = IF resolved THEN loops[l].now ELSE lastInferenceTime
          /\ isProcessing' = FALSE
          /\ frames' = [frames EXCEPT ![loops[l].frame] = @ + 1]
          /\ loops' = [loops EXCEPT ![l] = Scheduled]
    /\ UNCHANGED <<calVars, anaVars, funVars, analyzerVars, detectorVars, bannerVars,
                   cameraClock>>

(* time passes *)
Tick ==
    /\ \E d \in Elapsed :
          /\ cameraClock + d <= MaxCameraClock
          /\ cameraClock' = cameraClock + d
    /\ UNCHANGED <<calVars, anaVars, funVars, analyzerVars, detectorVars, bannerVars,
                   frames, isProcessing, lastInferenceTime, loops>>

(* the camera mounted, no stream handed over yet *)
InitCamera ==
    /\ Constructed(1)
    /\ AnalysisIdle
    /\ AppIdle

SpecCamera == InitCamera /\ [][HandleCameraStream \/ LoopPass \/ PredictSettles \/ Tick]_vars

(* the tensor is with the model: a loop awaits the inference run on it *)
InInference(f) == \E l \in DOMAIN loops : loops[l].pc = "predicting" /\ loops[l].frame = f

(* C27: every tensor pulled from the stream is disposed exactly once,
   whether inference ran on it, the throttle skipped it, inference threw or
   it was pulled while another inference was in progress: no tensor is
   disposed twice, and only a tensor the model is still working on is not
   disposed yet. *)
C27_EveryFrameDisposedOnce ==
    \A f \in DOMAIN frames :
        IF InInference(f) THEN frames[f] = 0 ELSE frames[f] = 1

(* C27 for a stream handler started once *)
C27_SingleLoopDisposesOnce ==
    Len(loops) <= 1 => C27_EveryFrameDisposedOnce


-----------------------------------------------------------------------------
(* Properties of scoring and issue detection in one frame *)

(* the issue of a type among those returned, NULL when there is none *)
IssueOf(list, type) ==
    IF \E i \in DOMAIN list : list[i].type = type
    THEN list[CHOOSE i \in DOMAIN list : list[i].type = type]
    ELSE NULL

(* C28: without a baseline the issues are measured against neck 15 and
   spine 95 whatever posture type is detected, while the head and spine
   scores are measured against the defaults of the detected type (0 and 180
   when standing); so a standing pose with spineAngle 180 has spine score
   100 and, in the same metrics, a severe slouching issue, for every
   threshold. *)
C28_FullSpineScoreYetSevereSlouching ==
    [][(AnalyzePose /\ userBaseline = NULL) =>
          LET type == metrics'.currentPosture.postureType
              a == metrics'.angles
              c == metrics'.currentPosture.components
              forwardHead == IssueOf(metrics'.issues, FORWARD_HEAD)
              slouching == IssueOf(metrics'.issues, SLOUCHING)
              neckDeviation == Abs(a.neckAngle - 15)
              spineDeviation == Abs(a.spineAngle - 95)
          IN  /\ forwardHead # NULL =>
                    /\ forwardHead.threshold = 15
                    /\ neckDeviation > 10
                    /\ forwardHead.severity = BandOf(neckDeviation)
              /\ slouching # NULL =>
                    /\ slouching.threshold = 95
                    /\ spineDeviation > 10
                    /\ slouching.severity = BandOf(spineDeviation)
              /\ neckDeviation > 25 => forwardHead # NULL
              /\ spineDeviation > 25 => slouching # NULL
              /\ c.head = StepScore(HeadSteps, 30,
                                    Abs(a.neckAngle - DocumentedDefaults(type).neckAngle))
              /\ c.spine = StepScore(SpineSteps, 30,
                                     Abs(a.spineAngle - DocumentedDefaults(type).spineAngle))
              /\ (type = STANDING /\ a.spineAngle = 180) =>
                    /\ c.spine = 100
                    /\ slouching # NULL
                    /\ slouching.severity = SEVERE]_vars

(* a standing pose with spineAngle 180 analysed without a baseline under
   the highest threshold: spine score 100 beside a severe slouching issue *)
C28_Witness ==
    /\ userBaseline = NULL
    /\ issueDetectionThreshold = 51
    /\ metrics # NULL
    /\ previousPose = Pose(StandKeypoints, 0)
    /\ metrics.currentPosture.postureType = STANDING
    /\ metrics.angles.spineAngle = 180
    /\ metrics.currentPosture.components.spine = 100
    /\ IssueOf(metrics.issues, SLOUCHING) # NULL
    /\ IssueOf(metrics.issues, SLOUCHING).severity = SEVERE


(* the types and severities of a list of issues, in order *)
Kinds(list) == [i \in DOMAIN list |-> <<list[i].type, list[i].severity>>]

(* C29: what analyzePose returns for a pose depends on the pose, the
   baseline and the threshold alone: the angles, the component and overall
   scores, the posture type and the types and severities of the issues are
   those the pure functions give for this pose, whatever was analysed
   before and whether or not reset() was called since.  (enableSmoothing
   and smoothingFactor are configuration no method reads.) *)
C29_AnalyzePoseIsHistoryIndependent ==
    [][AnalyzePose =>
          LET p == previousPose'
              a == calculateAngles(p)
              s == calculatePostureScore(p, a, userBaseline, 0)
              found == detectPostureIssues(p, a, userBaseline, issueDetectionThreshold, 0)
          IN  /\ metrics'.angles = a
              /\ metrics'.currentPosture.components = s.components
              /\ metrics'.currentPosture.overall = s.overall
              /\ metrics'.currentPosture.postureType = detectPostureType(p)
              /\ Kinds(metrics'.issues) = Kinds(found)]_vars

(* an analyzer that holds a baseline, has analysed the tilted sitting pose
   and was reset after it *)
C29_Witness ==
    /\ userBaseline = UprightBaseline
    /\ previousPose = NULL
    /\ metrics # NULL
    /\ metrics.angles = calculateAngles(Pose(SitTiltedKeypoints, 0))
    /\ metrics.currentPosture.postureType = SITTING
    /\ metrics.improvement = calculateImprovement(metrics.currentPosture.overall)

====
